---- MODULE Spec2Model ----
(***************************************************************************)
(* A model of the export pipeline of the Cornell notes application:        *)
(*   src/lib/export-utils.ts       exportToPdf and the PDF layout engine   *)
(*   src/lib/anki-export-utils.ts  exportToAnki and the flashcard          *)
(*                                 transformer                             *)
(*   src/lib/image-storage.ts      getImage (the image store lookup)       *)
(*                                                                         *)
(* Text.  A JavaScript string is a sequence of tokens.  A token is one     *)
(* character ("#", " ", "a", "|", ...), the line break NL, or one whole    *)
(* image reference: an HTML <img src="..."> tag or a markdown image        *)
(* ![alt](src) is kept as a single token, whose source is given by ImgSrc. *)
(*                                                                         *)
(* Lengths.  All lengths are in tenths of a millimetre, so that every      *)
(* step the layout engine takes (lineHeight / 3, lineHeight * 0.1, 0.5)    *)
(* is an integer.                                                          *)
(*                                                                         *)
(* jsPDF.  The document is the record doc = [pages, page, log]: the number *)
(* of pages, the active page, and the sequence of draw calls made so far.  *)
(* doc.splitTextToSize (text measurement) is the operator SplitTextToSize: *)
(* the token "w" stands for a run of text that fills one line of the       *)
(* column by itself.                                                       *)
(***************************************************************************)
EXTENDS Integers, Sequences, FiniteSets, TLC

VARIABLES
    exporter,      \* "pdf" | "anki": which export function was called
    title,         \* argument title
    summary,       \* argument summary
    markdown,      \* argument markdown (the note body)
    pc,            \* position inside the export function
    sections,      \* exportToPdf: const sections = parseMarkdown(...)
    noteLinks,     \* exportToPdf: const noteLinks
    doc,           \* exportToPdf: the jsPDF document
    y,             \* exportToPdf: let y (the layout cursor)
    index,         \* exportToPdf: the section loop's index (0-based)
    sect,          \* exportToPdf: the locals of the section being rendered
    sectionBoundaries,  \* exportToPdf: const sectionBoundaries
    continuationPages,  \* exportToPdf: const continuationPages (a Map)
    parser,        \* parseNotesToFlashcards: lines, i, currentHeading, currentContent
    flashcards,    \* exportToAnki: const flashcards
    zip,           \* exportToAnki: the files put into the JSZip archive
    downloads,     \* the calls of downloadBlob: a sequence of filenames
    thrown,        \* the error the export function ended with, or NoError
    trace          \* what the calls made in the last step returned

vars == <<exporter, title, summary, markdown, pc, sections, noteLinks, doc, y,
          index, sect, sectionBoundaries, continuationPages, parser,
          flashcards, zip, downloads, thrown, trace>>

(***************************************************************************)
(* Strings                                                                 *)
(***************************************************************************)
NL == "\n"

TAB == "\t"

\* The backtick character (a TLA+ string cannot hold one).
BT == "~"

\* The whitespace that String.prototype.trim and the regex class \s match.
IsSpace(c) == c \in {" ", NL, TAB}

\* The digits that occur in the inputs: the class \d.
Digits == {"1", "2"}

Max(a, b) == IF a >= b THEN a ELSE b

Min(a, b) == IF a <= b THEN a ELSE b

\* s.slice(a - 1, b): the tokens at the 1-based positions a..b that exist.
Slice(s, a, b) == SubSeq(s, Max(a, 1), Min(b, Len(s)))

RECURSIVE TrimStart(_)
TrimStart(s) ==
    IF s # <<>> /\ IsSpace(Head(s)) THEN TrimStart(Tail(s)) ELSE s

RECURSIVE TrimEnd(_)
TrimEnd(s) ==
    IF s # <<>> /\ IsSpace(s[Len(s)]) THEN TrimEnd(Slice(s, 1, Len(s) - 1)) ELSE s

\* String.prototype.trim
Trim(s) == TrimEnd(TrimStart(s))

\* String.prototype.startsWith / endsWith
StartsWith(s, p) == Len(s) >= Len(p) /\ Slice(s, 1, Len(p)) = p

EndsWith(s, p) == Len(s) >= Len(p) /\ Slice(s, Len(s) - Len(p) + 1, Len(s)) = p

\* String.prototype.substring(k): the text from 0-based offset k on.
Substring(s, k) == Slice(s, k + 1, Len(s))

\* String.prototype.indexOf(c) for a one-character c, 0-based, -1 when absent.
IndexOf(s, c) ==
    IF \E k \in 1..Len(s) : s[k] = c
    THEN (CHOOSE k \in 1..Len(s) : s[k] = c /\ \A j \in 1..(k - 1) : s[j] # c) - 1
    ELSE -1

\* The first 1-based position >= from at which p occurs in s, 0 when none.
Find(s, p, from) ==
    LET hits == {k \in from..(Len(s) - Len(p) + 1) : Slice(s, k, k + Len(p) - 1) = p}
    IN IF hits = {} THEN 0 ELSE CHOOSE k \in hits : \A j \in hits : k <= j

\* String.prototype.split("\n")
RECURSIVE Split(_)
Split(s) ==
    LET k == Find(s, <<NL>>, 1)
    IN IF k = 0 THEN <<s>>
       ELSE <<Slice(s, 1, k - 1)>> \o Split(Slice(s, k + 1, Len(s)))

\* Array.prototype.join("\n"): the elements in order with a line break between
\* neighbours, computed by halves.
RECURSIVE Join(_)
Join(lines) ==
    IF lines = <<>> THEN <<>>
    ELSE IF Len(lines) = 1 THEN lines[1]
    ELSE Join(SubSeq(lines, 1, Len(lines) \div 2)) \o <<NL>>
             \o Join(SubSeq(lines, Len(lines) \div 2 + 1, Len(lines)))

\* Array.prototype.flat over a sequence of sequences.
RECURSIVE Flatten(_)
Flatten(ss) == IF ss = <<>> THEN <<>> ELSE Head(ss) \o Flatten(Tail(ss))

\* s.replace(/<d>(.*?)<d>/g, "$1") for a delimiter d: each leftmost pair of
\* delimiters with no line break between them is removed.
RECURSIVE StripPairs(_, _)
StripPairs(s, d) ==
    LET p == Find(s, d, 1)
        q == IF p = 0 THEN 0 ELSE Find(s, d, p + Len(d))
        inner == Slice(s, p + Len(d), q - 1)
    IN IF q = 0 THEN s
       ELSE IF NL \in {inner[k] : k \in 1..Len(inner)}
       THEN Slice(s, 1, p) \o StripPairs(Slice(s, p + 1, Len(s)), d)
       ELSE Slice(s, 1, p - 1) \o inner \o StripPairs(Slice(s, q + Len(d), Len(s)), d)

\* The inline-code replace of cleanMarkdown: a pair of backticks around at
\* least one character is removed.
RECURSIVE StripCode(_)
StripCode(s) ==
    LET p == Find(s, <<BT>>, 1)
        q == IF p = 0 THEN 0 ELSE Find(s, <<BT>>, p + 1)
    IN IF q = 0 THEN s
       ELSE IF q = p + 1 THEN Slice(s, 1, p) \o StripCode(Slice(s, p + 1, Len(s)))
       ELSE Slice(s, 1, p - 1) \o Slice(s, p + 1, q - 1)
                \o StripCode(Slice(s, q + 1, Len(s)))

\* cleanMarkdown: bold, italic and inline-code markers are removed.
cleanMarkdown(text) == StripCode(StripPairs(StripPairs(text, <<"*", "*">>), <<"*">>))

(***************************************************************************)
(* Image references and the image store                                    *)
(***************************************************************************)
\* HTML image tags, one token each: <img src="cornell-image://s1">, ...,
\* <img src="data:image/png;..."> (an inline payload), <img src="https://...">
\* (an external URL), <img src="/placeholder.svg"> (the placeholder marker).
\* "<img data:s1>" is the tag of s1 after processContentForExport has put the
\* stored payload in place of its cornell-image:// URL.
HtmlImgs == {"<img s1>", "<img s2>", "<img s3>", "<img data>", "<img url>",
             "<img ph>", "<img data:s1>"}

\* Markdown images ![alt](src), one token each.
MdImgs == {"![](s1)", "![](data)"}

\* The src of an image token: its scheme and, for a store id, the id.
ImgSrc(t) ==
    CASE t = "<img s1>" -> [scheme |-> "cornell-image", id |-> "s1"]
      [] t = "<img s2>" -> [scheme |-> "cornell-image", id |-> "s2"]
      [] t = "<img s3>" -> [scheme |-> "cornell-image", id |-> "s3"]
      [] t = "<img data>" -> [scheme |-> "data", id |-> "inline"]
      [] t = "<img data:s1>" -> [scheme |-> "data", id |-> "s1"]
      [] t = "<img url>" -> [scheme |-> "http", id |-> "url"]
      [] t = "<img ph>" -> [scheme |-> "placeholder", id |-> "ph"]
      [] t = "![](s1)" -> [scheme |-> "cornell-image", id |-> "s1"]
      [] t = "![](data)" -> [scheme |-> "data", id |-> "inline"]

\* getImage(id): the store holds a payload for s1, holds nothing for s2
\* (resolve(null)), and its request for s3 fails (reject).
getImage(id) ==
    CASE id = "s1" -> [outcome |-> "found", data |-> "s1"]
      [] id = "s2" -> [outcome |-> "missing", data |-> "none"]
      [] OTHER -> [outcome |-> "rejected", data |-> "none"]

(***************************************************************************)
(* The section splitter of the PDF exporter                                *)
(***************************************************************************)
H1 == <<"#", " ">>

\* parseMarkdown's forEach over the lines and its final push.  A string is
\* truthy when it is not empty.
RECURSIVE parseMarkdownLoop(_, _, _, _)
parseMarkdownLoop(lines, currentHeading, currentContent, acc) ==
    LET pushed == IF currentHeading # <<>>
                  THEN Append(acc, [heading |-> currentHeading,
                                    content |-> Join(currentContent)])
                  ELSE acc
    IN IF lines = <<>> THEN pushed
       ELSE IF StartsWith(Head(lines), H1)
       THEN parseMarkdownLoop(Tail(lines), Substring(Head(lines), 2), <<>>, pushed)
       ELSE parseMarkdownLoop(Tail(lines), currentHeading,
                              Append(currentContent, Head(lines)), acc)

parseMarkdown(md) == parseMarkdownLoop(Split(md), <<>>, <<>>, <<>>)

(***************************************************************************)
(* Note links                                                              *)
(***************************************************************************)
\* One match of /\[\[([^\]]+)\]\]/ starting at position p of s: the position
\* of its last character, or 0.  The class [^\]]+ takes every character up to
\* the next "]", at least one, and "]]" must follow.
NoteLinkEnd(s, p) ==
    LET r == Find(s, <<"]">>, p + 2)
    IN IF /\ Slice(s, p, p + 1) = <<"[", "[">>
          /\ r > p + 2
          /\ r + 1 <= Len(s)
          /\ s[r + 1] = "]"
       THEN r + 1
       ELSE 0

\* The leftmost position >= from at which the note-link pattern matches, or 0.
NoteLinkStart(s, from) ==
    LET hits == {p \in from..Len(s) : NoteLinkEnd(s, p) > 0}
    IN IF hits = {} THEN 0 ELSE CHOOSE p \in hits : \A q \in hits : p <= q

\* s.replace(/\[\[([^\]]+)\]\]/g, open + "$1" + close)
RECURSIVE ReplaceNoteLinks(_, _, _)
ReplaceNoteLinks(s, open, close) ==
    LET p == NoteLinkStart(s, 1)
        e == NoteLinkEnd(s, p)
    IN IF p = 0 THEN s
       ELSE Slice(s, 1, p - 1) \o open \o Slice(s, p + 2, e - 2) \o close
                \o ReplaceNoteLinks(Slice(s, e + 1, Len(s)), open, close)

\* The while loop of extractNoteLinks: match[1].trim() of every match, in order.
RECURSIVE NoteLinkMatches(_)
NoteLinkMatches(s) ==
    LET p == NoteLinkStart(s, 1)
        e == NoteLinkEnd(s, p)
    IN IF p = 0 THEN <<>>
       ELSE <<Trim(Slice(s, p + 2, e - 2))>> \o NoteLinkMatches(Slice(s, e + 1, Len(s)))

\* A faulty extractNoteLinks: the matches are returned as they come.
RECURSIVE DedupeNone(_)
DedupeNone(links) == IF links = <<>> THEN <<>> ELSE <<Head(links)>> \o DedupeNone(Tail(links))

\* [...new Set(links)]: the first occurrence of each element, in order.
RECURSIVE Dedupe(_)
Dedupe(links) ==
    IF links = <<>> THEN <<>>
    ELSE LET front == Dedupe(Slice(links, 1, Len(links) - 1))
             last == links[Len(links)]
         IN IF \E k \in 1..Len(front) : front[k] = last THEN front
            ELSE Append(front, last)

extractNoteLinks(content) == Dedupe(NoteLinkMatches(content))

(***************************************************************************)
(* processContentForExport                                                 *)
(***************************************************************************)
\* The loop over the matches of /cornell-image:\/\/(.*?)["']/g: the URL of a
\* tag whose id the store holds is replaced by the stored payload; an id the
\* store does not hold, or whose lookup is rejected (caught), is left alone.
\* A markdown image has no quote after its URL and is not matched.
ResolveToken(t) ==
    IF /\ t \in HtmlImgs
       /\ ImgSrc(t).scheme = "cornell-image"
       /\ getImage(ImgSrc(t).id).outcome = "found"
    THEN "<img data:s1>"
    ELSE t

processContentForExport(content) ==
    ReplaceNoteLinks([k \in 1..Len(content) |-> ResolveToken(content[k])], <<>>, <<>>)

(***************************************************************************)
(* jsPDF                                                                   *)
(***************************************************************************)
\* The A4 page of new jsPDF({unit: "mm", format: "a4"}), in tenths of a mm.
pageHeight == 2970

pageWidth == 2100

margin == 150

keyPointsWidth == 450

contentWidth == pageWidth - margin - keyPointsWidth - margin

lineHeight == 60

\* The y beyond which nothing is to be drawn: pageHeight - margin.
PageBottom == pageHeight - margin

NoImage == [iw |-> 0, ih |-> 0, wNum |-> 0, hNum |-> 0, den |-> 1]

NewDoc == [pages |-> 1, page |-> 1, log |-> <<>>]

\* One draw call on the active page.  tag names the call site; for a line,
\* y and h are its two y coordinates; for a rect or an image, h is its height.
Draw(d, op, tag, txt, x, yy, h, align) ==
    [d EXCEPT !.log = Append(@, [op |-> op, tag |-> tag, page |-> d.page, txt |-> txt,
                                 x |-> x, y |-> yy, h |-> h, align |-> align,
                                 img |-> NoImage])]

text(d, tag, txt, x, yy, align) == Draw(d, "text", tag, txt, x, yy, 0, align)

\* A faulty addPage: the page is added but the active page stays.
addPageStays(d) ==
    [d EXCEPT !.pages = @ + 1,
              !.log = Append(@, [op |-> "addPage", tag |-> "addPage", page |-> d.pages + 1,
                                 txt |-> <<>>, x |-> 0, y |-> 0, h |-> 0,
                                 align |-> "left", img |-> NoImage])]

\* doc.addPage(): a page is added after the last one and becomes the active page.
addPage(d) ==
    [d EXCEPT !.pages = @ + 1, !.page = d.pages + 1,
              !.log = Append(@, [op |-> "addPage", tag |-> "addPage", page |-> d.pages + 1,
                                 txt |-> <<>>, x |-> 0, y |-> 0, h |-> 0,
                                 align |-> "left", img |-> NoImage])]

setPage(d, n) == [d EXCEPT !.page = n]

\* doc.splitTextToSize(text, width): the lines the text wraps into.  A line
\* ends after each "w" (a run of text as wide as the column) that more text
\* follows; a text without one is a single line, the empty text included.
RECURSIVE SplitTextToSize(_)
SplitTextToSize(txt) ==
    LET k == Find(txt, <<"w">>, 1)
    IN IF k = 0 \/ k = Len(txt) THEN <<txt>>
       ELSE <<Slice(txt, 1, k)>> \o SplitTextToSize(Slice(txt, k + 1, Len(txt)))

\* The vertical divider between the key-point column and the notes column,
\* drawn after a page break unless the section is the last one.
Divider(d, sectionInfo) ==
    IF sectionInfo.currentSection < sectionInfo.totalSections - 1
    THEN Draw(d, "line", "divider", <<>>, margin + keyPointsWidth, margin, PageBottom, "left")
    ELSE d

(***************************************************************************)
(* renderList                                                              *)
(***************************************************************************)
\* A faulty inner loop: the line that meets a page break is not drawn on the
\* new page.
RECURSIVE renderListLinesSkip(_, _, _, _, _)
renderListLinesSkip(d, textLines, lineIndex, x, currentY) ==
    IF lineIndex > Len(textLines) THEN [doc |-> d, y |-> currentY]
    ELSE IF currentY + lineHeight > PageBottom
    THEN renderListLinesSkip(addPage(d), textLines, lineIndex + 1, x, margin)
    ELSE renderListLinesSkip(text(d, "li", textLines[lineIndex], x + 50, currentY + 20, "left"),
                             textLines, lineIndex + 1, x, currentY + lineHeight)

\* The inner loop of renderList over the wrapped lines of one item.
RECURSIVE renderListLines(_, _, _, _, _)
renderListLines(d, textLines, lineIndex, x, currentY) ==
    IF lineIndex > Len(textLines) THEN [doc |-> d, y |-> currentY]
    ELSE LET break == currentY + lineHeight > PageBottom
             d1 == IF break THEN addPage(d) ELSE d
             y1 == IF break THEN margin ELSE currentY
         IN renderListLines(text(d1, "li", textLines[lineIndex], x + 50, y1 + 20, "left"),
                            textLines, lineIndex + 1, x, y1 + lineHeight)

\* The marker of the item at index idx (0-based).
ListMarker(isNumbered, idx) ==
    IF isNumbered THEN <<ToString(idx + 1), ".">> ELSE <<"(bullet)">>

RECURSIVE renderListItems(_, _, _, _, _, _)
renderListItems(d, listItems, idx, x, currentY, isNumbered) ==
    IF idx > Len(listItems) THEN [doc |-> d, y |-> currentY + 20]
    ELSE LET break == currentY + lineHeight > PageBottom
             d1 == IF break THEN addPage(d) ELSE d
             y1 == IF break THEN margin ELSE currentY
             d2 == text(d1, "marker", ListMarker(isNumbered, idx - 1), x, y1 + 20, "left")
             itemText == cleanMarkdown(Trim(listItems[idx]))
             r == renderListLines(d2, SplitTextToSize(itemText), 1, x, y1)
         IN renderListItems(r.doc, listItems, idx + 1, x, r.y, isNumbered)

renderList(d, listItems, x, yy, isNumbered) ==
    renderListItems(d, listItems, 1, x, yy, isNumbered)

(***************************************************************************)
(* renderCodeBlock                                                         *)
(***************************************************************************)
\* A faulty background: the height of the lines, whatever room the page has.
CodeBackgroundUncapped(d, n, x, currentY) ==
    Draw(d, "rect", "codebg", <<>>, x, currentY, n * lineHeight + 60, "left")

\* The rectangle behind n code lines whose top is at currentY.
CodeBackground(d, n, x, currentY) ==
    Draw(d, "rect", "codebg", <<>>, x, currentY,
         Min(n * lineHeight + 60, PageBottom - currentY), "left")

\* The for loop over the code lines, from line i (1-based): the page-break
\* check with the background for the lines that remain, then the line.  s
\* is the document and the cursor after line i.
RECURSIVE renderCodeLines(_, _, _, _, _)
renderCodeLines(d, codeLines, i, x, currentY) ==
    IF i > Len(codeLines) THEN [doc |-> d, y |-> currentY + 20]
    ELSE LET break == currentY + lineHeight > PageBottom
             d1 == IF break
                   THEN CodeBackground(addPage(d), Len(codeLines) - i + 1, x, margin)
                   ELSE d
             y1 == IF break THEN margin ELSE currentY
         IN CHOOSE r \in {renderCodeLines(s.doc, codeLines, i + 1, x, s.y) :
                           s \in {[doc |-> text(d1, "code", codeLines[i], x + 30,
                                                y1 + 50 + 20, "left"),
                                   y |-> y1 + lineHeight]}} : TRUE

renderCodeBlock(d, codeLines, x, yy) ==
    LET break == yy + lineHeight * Len(codeLines) + 60 > PageBottom
        d1 == IF break THEN addPage(d) ELSE d
        y1 == IF break THEN margin ELSE yy
    IN renderCodeLines(CodeBackground(d1, Len(codeLines), x, y1), codeLines, 1, x, y1)

(***************************************************************************)
(* renderBlockquote                                                        *)
(***************************************************************************)
QuoteBar(d, x, startY, currentY) == Draw(d, "line", "quotebar", <<>>, x, startY, currentY, "left")

\* The loops of renderBlockquote: quote line i, wrapped line j of it.
RECURSIVE renderQuoteLines(_, _, _, _, _, _, _)
renderQuoteLines(d, quoteLines, i, j, x, currentY, startY) ==
    IF i > Len(quoteLines)
    THEN [doc |-> QuoteBar(d, x, startY, currentY), y |-> currentY + 20]
    ELSE LET textLines == SplitTextToSize(cleanMarkdown(Trim(quoteLines[i])))
         IN IF j > Len(textLines)
            THEN renderQuoteLines(d, quoteLines, i + 1, 1, x, currentY, startY)
            ELSE LET break == currentY + lineHeight > PageBottom
                     d1 == IF break THEN addPage(QuoteBar(d, x, startY, currentY)) ELSE d
                     y1 == IF break THEN margin ELSE currentY
                     s1 == IF break THEN margin ELSE startY
                 IN renderQuoteLines(text(d1, "quote", textLines[j], x + 50, y1 + 20, "left"),
                                     quoteLines, i, j + 1, x, y1 + lineHeight, s1)

renderBlockquote(d, quoteLines, x, yy) ==
    LET break == yy + lineHeight > PageBottom
        d1 == IF break THEN addPage(d) ELSE d
        y1 == IF break THEN margin ELSE yy
    IN renderQuoteLines(d1, quoteLines, 1, 1, x, y1, y1)

(***************************************************************************)
(* renderTable                                                             *)
(***************************************************************************)
\* String.prototype.split(c) for a one-character c.
RECURSIVE SplitOn(_, _)
SplitOn(s, c) ==
    LET k == Find(s, <<c>>, 1)
    IN IF k = 0 THEN <<s>>
       ELSE <<Slice(s, 1, k - 1)>> \o SplitOn(Slice(s, k + 1, Len(s)), c)

\* row.split("|").slice(1, -1)
RawCells(row) == LET parts == SplitOn(row, "|") IN Slice(parts, 2, Len(parts) - 1)

\* row.split("|").slice(1, -1).map((c) => c.trim())
Cells(row) == [k \in 1..Len(RawCells(row)) |-> Trim(RawCells(row)[k])]

IsTableLine(line) == StartsWith(Trim(line), <<"|">>) /\ EndsWith(Trim(line), <<"|">>)

\* A faulty reading of the separator row: the test for a trailing ":" comes
\* first, so a cell with ":" at both ends counts as right-aligned.
TextAlignEndFirst(separatorRow, colIndex) ==
    LET separatorCells == RawCells(separatorRow)
        alignmentCell == IF colIndex + 1 <= Len(separatorCells)
                            /\ separatorCells[colIndex + 1] # <<>>
                         THEN separatorCells[colIndex + 1]
                         ELSE <<"-", "-", "-">>
        t == Trim(alignmentCell)
    IN IF EndsWith(t, <<":">>) THEN "right"
       ELSE IF StartsWith(t, <<":">>) THEN "center"
       ELSE "left"

\* The alignment of column colIndex (0-based) read from the separator row; a
\* missing or empty cell counts as "---".
TextAlign(separatorRow, colIndex) ==
    LET separatorCells == RawCells(separatorRow)
        alignmentCell == IF colIndex + 1 <= Len(separatorCells)
                            /\ separatorCells[colIndex + 1] # <<>>
                         THEN separatorCells[colIndex + 1]
                         ELSE <<"-", "-", "-">>
        t == Trim(alignmentCell)
    IN IF StartsWith(t, <<":">>) /\ EndsWith(t, <<":">>) THEN "center"
       ELSE IF EndsWith(t, <<":">>) THEN "right"
       ELSE "left"

cellPadding == 30

rowHeight == 80

\* The x a cell's text is drawn at, for the cell starting at currentX.
TextX(currentX, columnWidth, textAlign) ==
    CASE textAlign = "center" -> currentX + columnWidth \div 2
      [] textAlign = "right" -> currentX + columnWidth - cellPadding
      [] OTHER -> currentX + cellPadding

\* columns.forEach of the header: one text per column, then the caller moves
\* down a row and draws the header separator.
RECURSIVE HeaderCells(_, _, _, _, _, _, _)
HeaderCells(d, columns, separatorRow, colIndex, x, currentY, columnWidth) ==
    IF colIndex >= Len(columns) THEN d
    ELSE LET textAlign == TextAlign(separatorRow, colIndex)
             currentX == x + colIndex * columnWidth
         IN HeaderCells(text(d, "th", cleanMarkdown(columns[colIndex + 1]),
                             TextX(currentX, columnWidth, textAlign),
                             currentY + rowHeight \div 2 + 10, textAlign),
                        columns, separatorRow, colIndex + 1, x, currentY, columnWidth)

\* The header at currentY and the separator line under it.
TableHeader(d, columns, separatorRow, x, currentY, columnWidth, totalWidth) ==
    Draw(HeaderCells(d, columns, separatorRow, 0, x, currentY, columnWidth),
         "line", "thline", <<>>, x, currentY + rowHeight, currentY + rowHeight, "left")

\* The for loop over the wrapped lines of one cell.
RECURSIVE CellLines(_, _, _, _, _, _)
CellLines(d, cellLines, i, textX, textY, textAlign) ==
    IF i >= Len(cellLines) THEN d
    ELSE CellLines(text(d, "td", cellLines[i + 1], textX, textY + i * lineHeight, textAlign),
                   cellLines, i + 1, textX, textY, textAlign)

\* cells.forEach of one data row: a cell beyond the header's columns is not drawn.
RECURSIVE RowCells(_, _, _, _, _, _, _, _)
RowCells(d, cells, nColumns, separatorRow, colIndex, x, currentY, columnWidth) ==
    IF colIndex >= Len(cells) THEN d
    ELSE IF colIndex < nColumns
    THEN LET textAlign == TextAlign(separatorRow, colIndex)
             currentX == x + colIndex * columnWidth
             cellLines == SplitTextToSize(cleanMarkdown(cells[colIndex + 1]))
         IN RowCells(CellLines(d, cellLines, 0, TextX(currentX, columnWidth, textAlign),
                               currentY + cellPadding, textAlign),
                     cells, nColumns, separatorRow, colIndex + 1, x, currentY, columnWidth)
    ELSE RowCells(d, cells, nColumns, separatorRow, colIndex + 1, x, currentY, columnWidth)

\* The horizontal line under a data row that is not the last one.
RowLine(d, notLast, x, lineY) ==
    IF notLast THEN Draw(d, "line", "rowline", <<>>, x, lineY, lineY, "left") ELSE d

\* A faulty row loop: after a page break the header is not drawn again.
RECURSIVE TableRowsBare(_, _, _, _, _, _, _, _)
TableRowsBare(d, contentRows, rowIndex, columns, separatorRow, x, currentY, columnWidth) ==
    IF rowIndex >= Len(contentRows) THEN [doc |-> d, y |-> currentY + 40]
    ELSE LET break == currentY + rowHeight > PageBottom
             y1 == IF break THEN margin ELSE currentY
         IN TableRowsBare(
                RowLine(RowCells(IF break THEN addPage(d) ELSE d,
                                 Cells(contentRows[rowIndex + 1]), Len(columns), separatorRow,
                                 0, x, y1, columnWidth),
                        rowIndex < Len(contentRows) - 1, x, y1 + rowHeight),
                contentRows, rowIndex + 1, columns, separatorRow, x, y1 + rowHeight,
                columnWidth)

\* The for loop over the content rows.
RECURSIVE TableRows(_, _, _, _, _, _, _, _)
TableRows(d, contentRows, rowIndex, columns, separatorRow, x, currentY, columnWidth) ==
    IF rowIndex >= Len(contentRows) THEN [doc |-> d, y |-> currentY + 40]
    ELSE LET totalWidth == columnWidth * Len(columns)
             break == currentY + rowHeight > PageBottom
             d1 == IF break
                   THEN TableHeader(addPage(d), columns, separatorRow, x, margin,
                                    columnWidth, totalWidth)
                   ELSE d
             y1 == IF break THEN margin + rowHeight ELSE currentY
             d2 == RowCells(d1, Cells(contentRows[rowIndex + 1]), Len(columns), separatorRow,
                            0, x, y1, columnWidth)
             d3 == RowLine(d2, rowIndex < Len(contentRows) - 1, x, y1 + rowHeight)
         IN TableRows(d3, contentRows, rowIndex + 1, columns, separatorRow, x,
                      y1 + rowHeight, columnWidth)

renderTable(d, tableText, x, yy, maxWidth) ==
    LET tableRows == SelectSeq(tableText, IsTableLine)
        headerRow == tableRows[1]
        separatorRow == tableRows[2]
        contentRows == Slice(tableRows, 3, Len(tableRows))
        columns == Cells(headerRow)
        totalWidth == maxWidth - 100
        columnWidth == IF columns = <<>> THEN 0 ELSE totalWidth \div Len(columns)
        break == yy + rowHeight * 2 > PageBottom
        d1 == IF break THEN addPage(d) ELSE d
        y1 == IF break THEN margin ELSE yy
    IN IF Len(tableRows) < 2 THEN [doc |-> d, y |-> yy]
       ELSE TableRows(TableHeader(d1, columns, separatorRow, x, y1, columnWidth, totalWidth),
                      contentRows, 0, columns, separatorRow, x, y1 + rowHeight, columnWidth)

(***************************************************************************)
(* renderMarkdownContent                                                   *)
(***************************************************************************)
IsFence(line) == StartsWith(Trim(line), <<BT, BT, BT>>)

IsQuote(line) == StartsWith(Trim(line), <<">">>)

\* line.trim().match(/^[-*]\s/)
IsBullet(line) ==
    LET t == Trim(line) IN Len(t) >= 2 /\ t[1] \in {"-", "*"} /\ IsSpace(t[2])

\* The length of the longest prefix of t whose characters are all in chars:
\* what a leading \d+, #{..} or \w* of a regex consumes.
PrefixLen(t, chars) ==
    LET stops == {k \in 1..Len(t) : t[k] \notin chars}
    IN IF stops = {} THEN Len(t) ELSE (CHOOSE k \in stops : \A j \in stops : k <= j) - 1

\* line.trim().match(/^\d+\.\s/)
IsNumbered(line) ==
    LET t == Trim(line)
        n == PrefixLen(t, Digits)
    IN n >= 1 /\ Len(t) >= n + 2 /\ t[n + 1] = "." /\ IsSpace(t[n + 2])

\* line.trim().match(/^#{2,6}\s/)
IsSubHeading(line) ==
    LET t == Trim(line)
        n == PrefixLen(t, {"#"})
    IN n >= 2 /\ n <= 6 /\ Len(t) >= n + 1 /\ IsSpace(t[n + 1])

Includes(line, tokens) == \E k \in 1..Len(line) : line[k] \in tokens

\* line.includes("<img") && line.includes("src=")
HasHtmlImage(line) == Includes(line, HtmlImgs)

\* line.includes("![") && line.includes("](")
HasMarkdownImage(line) == Includes(line, MdImgs)

\* The index after the run of lines that starts at line i (1-based), where
\* inRun[k] tells whether line k belongs to the run: the inner while loops
\* that collect a block's lines.
RunEnd(inRun, i) ==
    LET stops == {k \in i..Len(inRun) : ~inRun[k]}
    IN IF stops = {} THEN Max(i, Len(inRun) + 1)
       ELSE CHOOSE k \in stops : \A j \in stops : k <= j

\* A faulty test: a blank line ends the code block as a fence does.
NotFenceNorBlank(line) == ~IsFence(line) /\ Trim(line) # <<>>

NotFence(line) == ~IsFence(line)

\* The for loop over the wrapped lines of a paragraph.
RECURSIVE ParagraphLines(_, _, _, _, _, _)
ParagraphLines(d, textLines, j, x, currentY, sectionInfo) ==
    IF j > Len(textLines) THEN [doc |-> d, y |-> currentY + 6]
    ELSE LET break == currentY + lineHeight > PageBottom
             d1 == IF break THEN Divider(addPage(d), sectionInfo) ELSE d
             y1 == IF break THEN margin ELSE currentY
         IN ParagraphLines(text(d1, "para", textLines[j], x, y1 + 20, "left"),
                           textLines, j + 1, x, y1 + lineHeight, sectionInfo)

\* An in-body heading: all its wrapped lines go out in one doc.text call.
renderHeading(d, line, x, currentY) ==
    LET level == IndexOf(Trim(line), " ")
        headingText == Substring(Trim(line), level + 1)
        textLines == SplitTextToSize(cleanMarkdown(headingText))
        break == currentY + Len(textLines) * lineHeight + 20 > PageBottom
        d1 == IF break THEN addPage(d) ELSE d
        y1 == IF break THEN margin ELSE currentY
    IN [doc |-> Draw(d1, "text", "heading", Flatten(textLines), x, y1 + 20,
                     Len(textLines) * lineHeight, "left"),
        y |-> y1 + Len(textLines) * lineHeight + 20]

\* One iteration of the while loop of renderMarkdownContent, from line i
\* (1-based) with the cursor at yy: the page-break check, then the block that
\* starts at line i.  The result holds the index of the next line to look at.
renderMarkdownStep(d, lines, i, x, yy, maxWidth, sectionInfo) ==
    LET line == lines[i]
        break == yy + lineHeight > PageBottom
        d1 == IF break THEN Divider(addPage(d), sectionInfo) ELSE d
        currentY == IF break THEN margin ELSE yy
        At(r, next) == [doc |-> r.doc, y |-> r.y, i |-> next]
    IN IF Trim(line) = <<>>
       THEN [doc |-> d1, y |-> currentY + lineHeight \div 3, i |-> i + 1]
       ELSE IF IsTableLine(line)
       THEN LET e == RunEnd([k \in DOMAIN lines |-> IsTableLine(lines[k])], i)
            IN At(renderTable(d1, Slice(lines, i, e - 1), x, currentY, maxWidth), e)
       ELSE IF IsFence(line)
       THEN LET e == RunEnd([k \in DOMAIN lines |-> NotFence(lines[k])], i + 1)
            IN At(renderCodeBlock(d1, Slice(lines, i + 1, e - 1), x, currentY), e + 1)
       ELSE IF IsQuote(line)
       THEN LET e == RunEnd([k \in DOMAIN lines |-> IsQuote(lines[k])], i)
                quoteLines == [k \in 1..(e - i) |->
                                  Substring(lines[i + k - 1], IndexOf(lines[i + k - 1], ">") + 1)]
            IN At(renderBlockquote(d1, quoteLines, x, currentY), e)
       ELSE IF IsBullet(line)
       THEN LET e == RunEnd([k \in DOMAIN lines |-> IsBullet(lines[k])], i)
                listItems == [k \in 1..(e - i) |->
                                 Substring(lines[i + k - 1], IndexOf(lines[i + k - 1], " ") + 1)]
            IN At(renderList(d1, listItems, x, currentY, FALSE), e)
       ELSE IF IsNumbered(line)
       THEN LET e == RunEnd([k \in DOMAIN lines |-> IsNumbered(lines[k])], i)
                listItems == [k \in 1..(e - i) |->
                                 Substring(lines[i + k - 1], IndexOf(lines[i + k - 1], ".") + 1)]
            IN At(renderList(d1, listItems, x, currentY, TRUE), e)
       ELSE IF IsSubHeading(line)
       THEN At(renderHeading(d1, line, x, currentY), i + 1)
       ELSE IF HasHtmlImage(line) \/ HasMarkdownImage(line)
       THEN [doc |-> d1, y |-> currentY, i |-> i + 1]
       ELSE At(ParagraphLines(d1, SplitTextToSize(cleanMarkdown(line)), 1, x,
                              currentY, sectionInfo), i + 1)

(***************************************************************************)
(* addImagesToPdf                                                          *)
(***************************************************************************)
maxImageHeight == 800

imageMargin == 40

\* A faulty scaling: an image whose height is clamped keeps the full width.
ScaleImageStretch(iw, ih, maxWidth) ==
    IF maxWidth * ih <= maxImageHeight * iw
    THEN [iw |-> iw, ih |-> ih, wNum |-> maxWidth * iw, hNum |-> maxWidth * ih, den |-> iw]
    ELSE [iw |-> iw, ih |-> ih, wNum |-> maxWidth, hNum |-> maxImageHeight, den |-> 1]

\* The img.onload computation for an image of intrinsic size iw x ih:
\*   imgHeight = maxWidth / (iw / ih), finalHeight = min(imgHeight, maxImageHeight),
\*   finalWidth = finalHeight === imgHeight ? maxWidth : finalHeight * (iw / ih).
\* The result is exact: finalWidth = wNum / den and finalHeight = hNum / den.
ScaleImage(iw, ih, maxWidth) ==
    IF maxWidth * ih <= maxImageHeight * iw
    THEN [iw |-> iw, ih |-> ih, wNum |-> maxWidth * iw, hNum |-> maxWidth * ih, den |-> iw]
    ELSE [iw |-> iw, ih |-> ih, wNum |-> maxImageHeight * iw, hNum |-> maxImageHeight * ih,
          den |-> ih]

\* The images found by htmlImageRegex, in order: the HTML tags of the content.
ImagesToAdd(content) == SelectSeq(content, LAMBDA t : t \in HtmlImgs)

\* What the browser makes of a data URL handed to an Image element, and what
\* doc.addImage makes of it: onload with the intrinsic size, onerror, or an
\* addImage that throws (caught inside onload).
Decodings ==
    {[result |-> "load", iw |-> 2, ih |-> 1, addImage |-> "ok"],
     [result |-> "load", iw |-> 25, ih |-> 16, addImage |-> "ok"],
     [result |-> "load", iw |-> 1, ih |-> 1, addImage |-> "ok"],
     [result |-> "load", iw |-> 1, ih |-> 2, addImage |-> "ok"],
     [result |-> "load", iw |-> 2, ih |-> 1, addImage |-> "throws"],
     [result |-> "error", iw |-> 0, ih |-> 0, addImage |-> "ok"]}

\* One iteration of the for loop of addImagesToPdf for the image tag t, with
\* the cursor at yy; dec is what decoding the image gives if it gets that far.
addImageStep(d, t, x, yy, maxWidth, sectionInfo, dec) ==
    LET break == yy + maxImageHeight > PageBottom
        d1 == IF break THEN Divider(addPage(d), sectionInfo) ELSE d
        currentY == IF break THEN margin ELSE yy
        src == ImgSrc(t)
        looked == getImage(src.id)
        skipped == \/ src.scheme = "placeholder"
                   \/ src.scheme = "cornell-image" /\ looked.outcome # "found"
        isData == src.scheme = "data" \/ src.scheme = "cornell-image"
        dims == ScaleImage(dec.iw, dec.ih, maxWidth)
        finalHeight == dims.hNum \div dims.den
        break2 == currentY + finalHeight + 100 > PageBottom
        d2 == IF break2 THEN Divider(addPage(d1), sectionInfo) ELSE d1
        y2 == IF break2 THEN margin ELSE currentY
    IN IF skipped \/ ~isData \/ dec.result = "error" THEN [doc |-> d1, y |-> currentY]
       ELSE IF dec.addImage = "throws" THEN [doc |-> d2, y |-> y2]
       ELSE [doc |-> [d2 EXCEPT !.log = Append(@,
                          [op |-> "image", tag |-> "image", page |-> d2.page, txt |-> <<t>>,
                           x |-> x, y |-> y2, h |-> finalHeight, align |-> "left",
                           img |-> dims])],
             y |-> y2 + finalHeight + imageMargin]

(***************************************************************************)
(* exportToPdf                                                             *)
(***************************************************************************)
\* No error: the export function has not thrown.
NoCause == [isError |-> FALSE, message |-> <<>>]

NoError == [raised |-> FALSE, message |-> <<>>, cause |-> NoCause]

NoSection == [lines |-> <<>>, i |-> 0, currentY |-> 0, startY |-> 0, startPage |-> 0,
              images |-> <<>>]

NoTrace ==
    [call |-> "none", first |-> 0, next |-> 0, logFrom |-> 0, y0 |-> 0, pages0 |-> 0,
     txt |-> <<>>]

\* texts[k] drawn at y0 + (k - 1) * step, for every k.
RECURSIVE DrawLines(_, _, _, _, _, _)
DrawLines(d, tag, textLines, x, y0, step) ==
    IF textLines = <<>> THEN d
    ELSE DrawLines(text(d, tag, Head(textLines), x, y0, "left"), tag, Tail(textLines),
                   x, y0 + step, step)

\* String.prototype.toLowerCase
ToLower(c) == CASE c = "A" -> "a" [] c = "B" -> "b" [] c = "T" -> "t" [] OTHER -> c

\* title.replace(/\s+/g, "-")
RECURSIVE ReplaceSpaceRuns(_)
ReplaceSpaceRuns(s) ==
    IF s = <<>> THEN <<>>
    ELSE IF IsSpace(Head(s)) THEN <<"-">> \o ReplaceSpaceRuns(TrimStart(s))
    ELSE <<Head(s)>> \o ReplaceSpaceRuns(Tail(s))

PdfFilename(t) ==
    LET dashed == ReplaceSpaceRuns(t)
    IN [k \in 1..Len(dashed) |-> ToLower(dashed[k])] \o <<".pdf">>

\* The statements of exportToPdf up to the section loop: the content is
\* processed and split, the links are extracted, the title, the summary and
\* the rule under the header are drawn.
PdfPrepare ==
    /\ exporter = "pdf" /\ pc = "start"
    /\ LET processedMarkdown == processContentForExport(markdown)
           summaryLines == SplitTextToSize(summary)
           d1 == text(NewDoc, "title", title, 150, 200, "left")
           d2 == IF summary # <<>>
                 THEN DrawLines(d1, "summary", summaryLines, 150, 300 + 20, 60)
                 ELSE d1
           y1 == IF summary # <<>> THEN 300 + Len(summaryLines) * 60 + 60 ELSE 350
       IN /\ sections' = parseMarkdown(processedMarkdown)
          /\ noteLinks' = extractNoteLinks(markdown)
          /\ doc' = Draw(d2, "line", "headerline", <<>>, margin, y1 + 20, y1 + 20, "left")
          /\ y' = y1 + 80
    /\ index' = 0
    /\ sectionBoundaries' = <<>>
    /\ continuationPages' = <<>>
    /\ pc' = "sections"
    /\ trace' = NoTrace
    /\ UNCHANGED <<exporter, title, summary, markdown, sect, parser, flashcards, zip,
                   downloads, thrown>>

\* The head of one iteration of the section loop: a section with blank
\* content is skipped; otherwise the page check, the key-point heading, and
\* the call of renderMarkdownContent up to its while loop.
PdfSectionStart ==
    /\ exporter = "pdf" /\ pc = "sections" /\ index < Len(sections)
    /\ LET section == sections[index + 1]
           break == y + 200 > PageBottom
           d1 == IF break THEN addPage(doc) ELSE doc
           y1 == IF break THEN margin + 80 ELSE y
           headingLines == SplitTextToSize(section.heading)
       IN IF Trim(section.content) = <<>>
          THEN /\ index' = index + 1
               /\ UNCHANGED <<doc, y, sect, pc>>
          ELSE /\ doc' = DrawLines(d1, "keypoint", headingLines, margin + 50, y1 + 50 + 20, 60)
               /\ y' = y1
               /\ sect' = [lines |-> Split(section.content), i |-> 1, currentY |-> y1 + 50,
                           startY |-> y1, startPage |-> d1.page, images |-> <<>>]
               /\ pc' = "render"
               /\ UNCHANGED index
    /\ trace' = NoTrace
    /\ UNCHANGED <<exporter, title, summary, markdown, sections, noteLinks, sectionBoundaries,
                   continuationPages, parser, flashcards, zip, downloads, thrown>>

SectionInfo == [currentSection |-> index, totalSections |-> Len(sections)]

contentStartX == margin + keyPointsWidth + 50

\* The block render call the loop of renderMarkdownContent makes for a line.
BlockCall(line) ==
    IF Trim(line) = <<>> THEN "blank"
    ELSE IF IsTableLine(line) THEN "renderTable"
    ELSE IF IsFence(line) THEN "renderCodeBlock"
    ELSE IF IsQuote(line) THEN "renderBlockquote"
    ELSE IF IsBullet(line) \/ IsNumbered(line) THEN "renderList"
    ELSE IF IsSubHeading(line) THEN "heading"
    ELSE IF HasHtmlImage(line) \/ HasMarkdownImage(line) THEN "image"
    ELSE "paragraph"

\* One iteration of the while loop of renderMarkdownContent.
PdfRenderBlock ==
    /\ exporter = "pdf" /\ pc = "render" /\ sect.i <= Len(sect.lines)
    /\ \E r \in {renderMarkdownStep(doc, sect.lines, sect.i, contentStartX, sect.currentY,
                                    contentWidth - 100, SectionInfo)} :
          /\ doc' = r.doc
          /\ sect' = [sect EXCEPT !.i = r.i, !.currentY = r.y]
          /\ trace' = [call |-> BlockCall(sect.lines[sect.i]), first |-> sect.i, next |-> r.i,
                       logFrom |-> Len(doc.log), y0 |-> sect.currentY, pages0 |-> doc.pages,
                       txt |-> Join(Slice(sect.lines, sect.i, r.i - 1))]
    /\ UNCHANGED <<exporter, title, summary, markdown, pc, sections, noteLinks, y, index,
                   sectionBoundaries, continuationPages, parser, flashcards, zip,
                   downloads, thrown>>

\* renderMarkdownContent returns; addImagesToPdf is called with
\* contentEndY + 3 and collects the image tags of the section.
PdfImagesStart ==
    /\ exporter = "pdf" /\ pc = "render" /\ sect.i > Len(sect.lines)
    /\ sect' = [sect EXCEPT !.currentY = @ + 30,
                            !.images = ImagesToAdd(sections[index + 1].content)]
    /\ pc' = "images"
    /\ trace' = NoTrace
    /\ UNCHANGED <<exporter, title, summary, markdown, sections, noteLinks, doc, y, index,
                   sectionBoundaries, continuationPages, parser, flashcards, zip,
                   downloads, thrown>>

\* One iteration of the for loop of addImagesToPdf.
PdfAddImage ==
    /\ exporter = "pdf" /\ pc = "images" /\ sect.images # <<>>
    /\ \E dec \in Decodings :
          LET r == addImageStep(doc, Head(sect.images), contentStartX, sect.currentY,
                                contentWidth - 100, SectionInfo, dec)
          IN /\ doc' = r.doc
             /\ sect' = [sect EXCEPT !.images = Tail(@), !.currentY = r.y]
             /\ trace' = [call |-> "addImage", first |-> 0, next |-> 0,
                          logFrom |-> Len(doc.log), y0 |-> sect.currentY,
                          pages0 |-> doc.pages,
                          txt |-> <<Head(sect.images),
                                    IF dec.result = "load" /\ dec.addImage = "ok"
                                    THEN "decoded" ELSE "undecoded">>]
    /\ UNCHANGED <<exporter, title, summary, markdown, pc, sections, noteLinks, y, index,
                   sectionBoundaries, continuationPages, parser, flashcards, zip,
                   downloads, thrown>>

\* continuationPages.set(pageNum, index) for every page after startPage.
RECURSIVE SetContinuation(_, _, _, _)
SetContinuation(cp, from, to, idx) ==
    IF from > to THEN cp
    ELSE SetContinuation([p \in (DOMAIN cp) \cup {from} |-> IF p = from THEN idx ELSE cp[p]],
                         from + 1, to, idx)

\* The vertical divider of a section on each of its pages.
RECURSIVE SectionDividers(_, _, _, _, _, _)
SectionDividers(d, pageNum, startPage, endPage, startY, imagesEndY) ==
    IF pageNum > endPage THEN d
    ELSE LET top == IF pageNum = startPage THEN startY ELSE margin
             bottom == IF pageNum = endPage THEN imagesEndY ELSE PageBottom
         IN SectionDividers(Draw(setPage(d, pageNum), "line", "sectiondivider", <<>>,
                                 margin + keyPointsWidth, top, bottom, "left"),
                            pageNum + 1, startPage, endPage, startY, imagesEndY)

\* addImagesToPdf returns; the rest of the iteration of the section loop.
PdfSectionEnd ==
    /\ exporter = "pdf" /\ pc = "images" /\ sect.images = <<>>
    /\ LET imagesEndY == sect.currentY
           endPage == doc.page
       IN /\ sectionBoundaries' = Append(sectionBoundaries,
                 [index |-> index, startY |-> sect.startY, startPage |-> sect.startPage,
                  endY |-> imagesEndY, endPage |-> endPage])
          /\ continuationPages' = SetContinuation(continuationPages, sect.startPage + 1,
                                                  endPage, index)
          /\ doc' = setPage(SectionDividers(doc, sect.startPage, sect.startPage, endPage,
                                            sect.startY, imagesEndY), endPage)
          /\ y' = imagesEndY + 5
    /\ index' = index + 1
    /\ pc' = "sections"
    /\ trace' = NoTrace
    /\ UNCHANGED <<exporter, title, summary, markdown, sections, noteLinks, sect, parser,
                   flashcards, zip, downloads, thrown>>

\* The rule under every recorded section but the last.
RECURSIVE BottomLines(_, _, _)
BottomLines(d, boundaries, i) ==
    IF i >= Len(boundaries) THEN d
    ELSE IF i < Len(boundaries) - 1
    THEN BottomLines(Draw(setPage(d, boundaries[i + 1].endPage), "line", "sectionline", <<>>,
                          margin, boundaries[i + 1].endY, boundaries[i + 1].endY, "left"),
                     boundaries, i + 1)
    ELSE BottomLines(d, boundaries, i + 1)

\* The key-point heading redrawn on every continuation page.
RECURSIVE ContinuationLabels(_, _, _, _, _)
ContinuationLabels(d, pageNum, totalPages, cp, secs) ==
    IF pageNum > totalPages THEN d
    ELSE IF pageNum \in DOMAIN cp
    THEN ContinuationLabels(
             DrawLines(setPage(d, pageNum), "contlabel",
                       SplitTextToSize(secs[cp[pageNum] + 1].heading),
                       margin + 50, margin + 50 + 20, 60),
             pageNum + 1, totalPages, cp, secs)
    ELSE ContinuationLabels(d, pageNum + 1, totalPages, cp, secs)

\* The for loop over noteLinks of the Related Notes listing.
RECURSIVE RelatedLinks(_, _, _, _)
RelatedLinks(d, links, i, currentY) ==
    IF i >= Len(links) THEN d
    ELSE LET break == currentY + 60 > PageBottom
             d1 == IF break THEN addPage(d) ELSE d
             y1 == IF break THEN margin ELSE currentY
         IN RelatedLinks(text(d1, "relatedlink", <<"(bullet)", " ">> \o links[i + 1],
                              margin + 50, y1, "left"),
                         links, i + 1, y1 + 60)

RelatedNotes(d, links, yy) ==
    LET d0 == setPage(d, d.pages)
        estimatedHeight == 200 + Len(links) * 60
        break == yy + 200 + estimatedHeight > PageBottom
        d1 == IF break THEN addPage(d0) ELSE d0
        currentY == IF break THEN margin + 100 ELSE yy + 200
    IN IF Len(links) > 0
       THEN RelatedLinks(text(d1, "related", <<"Related Notes">>, margin, currentY, "left"),
                         links, 0, currentY + 80 + 20)
       ELSE d

\* The statements after the section loop, up to doc.output.
PdfFinish ==
    /\ exporter = "pdf" /\ pc = "sections" /\ index >= Len(sections)
    /\ doc' = RelatedNotes(
                  ContinuationLabels(BottomLines(doc, sectionBoundaries, 0), 1, doc.pages,
                                     continuationPages, sections),
                  noteLinks, y)
    /\ pc' = "output"
    /\ trace' = NoTrace
    /\ UNCHANGED <<exporter, title, summary, markdown, sections, noteLinks, y, index, sect,
                   sectionBoundaries, continuationPages, parser, flashcards, zip,
                   downloads, thrown>>

\* doc.output("blob") and downloadBlob(pdfBlob, filename); the function returns.
PdfDownload ==
    /\ exporter = "pdf" /\ pc = "output"
    /\ downloads' = Append(downloads, PdfFilename(title))
    /\ pc' = "done"
    /\ trace' = NoTrace
    /\ UNCHANGED <<exporter, title, summary, markdown, sections, noteLinks, doc, y, index,
                   sect, sectionBoundaries, continuationPages, parser, flashcards,
                   zip, thrown>>

\* What a call into jsPDF or the browser may throw: an Error with a message,
\* or a value that is not an Error.
Failures == {[isError |-> TRUE, message |-> <<"boom">>], [isError |-> FALSE, message |-> <<>>]}

\* A faulty catch block: the error is thrown again as it is.
PdfRethrow(error) == [raised |-> TRUE, message |-> error.message, cause |-> error]

\* The catch block of exportToPdf: the error is wrapped and thrown again.
PdfCatch(error) ==
    [raised |-> TRUE,
     message |-> <<"Failed to generate PDF: ">>
                     \o (IF error.isError THEN error.message ELSE <<"Unknown error">>),
     cause |-> error]

\* A statement of the try block throws: control goes to the catch block and
\* the function ends by throwing; its locals are gone.
PdfThrow ==
    /\ exporter = "pdf" /\ pc \in {"start", "sections", "render", "images", "output"}
    /\ \E error \in Failures : thrown' = PdfCatch(error)
    /\ pc' = "failed"
    /\ sections' = <<>> /\ noteLinks' = <<>> /\ doc' = NewDoc /\ y' = 0 /\ index' = 0
    /\ sect' = NoSection /\ sectionBoundaries' = <<>> /\ continuationPages' = <<>>
    /\ trace' = NoTrace
    /\ UNCHANGED <<exporter, title, summary, markdown, parser, flashcards, zip, downloads>>

NextPdf ==
    \/ PdfPrepare
    \/ PdfSectionStart
    \/ PdfRenderBlock
    \/ PdfImagesStart
    \/ PdfAddImage
    \/ PdfSectionEnd
    \/ PdfFinish
    \/ PdfDownload
    \/ PdfThrow

(***************************************************************************)
(* processImagesForAnki                                                    *)
(***************************************************************************)
\* String.prototype.replace(t, r) for a one-token t: the first occurrence.
ReplaceFirst(s, t, r) ==
    LET k == Find(s, <<t>>, 1)
    IN IF k = 0 THEN s ELSE Slice(s, 1, k - 1) \o r \o Slice(s, k + 1, Len(s))

\* The filenames img_<Date.now()>_<Math.random()>.<ext> a call can come up with.
FileNames == {"f1", "f2"}

\* <img src="<filename>" alt="Image" style="...">
AnkiImg(filename) == IF filename = "f1" THEN "<img f1>" ELSE "<img f2>"

NotFoundText == "<p><em>[Image not found: Image]</em></p>"

PlaceholderText == "<p><em>[Placeholder image: Image]</em></p>"

ErrorText == "<p><em>[Error loading image: Image]</em></p>"

\* The external image tag with the style attribute added.
StyledImg == "<img url style>"

\* The image map of a card: a function from filenames to payloads.
NoImages == [f \in {} |-> "none"]

\* Object.assign(a, b), and a[filename] = data.
Assign(a, b) == [f \in DOMAIN a \cup DOMAIN b |-> IF f \in DOMAIN b THEN b[f] ELSE a[f]]

\* A faulty loop: the result of getImage is used without the test for null,
\* and a rejected lookup is not caught apart from it.
RECURSIVE HtmlImageLoopNoNull(_, _, _, _, _)
HtmlImageLoopNoNull(matches, k, names, processedContent, images) ==
    IF k > Len(matches) THEN [html |-> processedContent, images |-> images]
    ELSE IF ImgSrc(matches[k]).scheme = "placeholder"
    THEN HtmlImageLoopNoNull(matches, k + 1, names,
                             ReplaceFirst(processedContent, matches[k], <<PlaceholderText>>),
                             images)
    ELSE IF ImgSrc(matches[k]).scheme \in {"cornell-image", "data"}
    THEN HtmlImageLoopNoNull(matches, k + 1, names,
                             ReplaceFirst(processedContent, matches[k], <<AnkiImg(names[k])>>),
                             Assign(images,
                                    [f \in {names[k]} |->
                                        IF ImgSrc(matches[k]).scheme = "data"
                                        THEN ImgSrc(matches[k]).id
                                        ELSE getImage(ImgSrc(matches[k]).id).data]))
    ELSE HtmlImageLoopNoNull(matches, k + 1, names,
                             ReplaceFirst(processedContent, matches[k], <<StyledImg>>), images)

\* The while loop over the matches of htmlImageRegex in content, from the
\* k-th match on.  The alt group of the regex never takes part in a match (the
\* [^>]* before it is greedy and the group is optional), so alt is "Image".
\* names[k] is the filename generated if the k-th match is embedded.
RECURSIVE HtmlImageLoop(_, _, _, _, _)
HtmlImageLoop(matches, k, names, processedContent, images) ==
    IF k > Len(matches) THEN [html |-> processedContent, images |-> images]
    ELSE LET fullMatch == matches[k]
             src == ImgSrc(fullMatch)
             stored == getImage(src.id)
             isStore == src.scheme = "cornell-image"
             imageData == IF isStore THEN stored.data ELSE src.id
         IN IF isStore /\ stored.outcome = "rejected"
            THEN HtmlImageLoop(matches, k + 1, names,
                               ReplaceFirst(processedContent, fullMatch, <<ErrorText>>), images)
            ELSE IF isStore /\ stored.outcome = "missing"
            THEN HtmlImageLoop(matches, k + 1, names,
                               ReplaceFirst(processedContent, fullMatch, <<NotFoundText>>),
                               images)
            ELSE IF src.scheme = "placeholder"
            THEN HtmlImageLoop(matches, k + 1, names,
                               ReplaceFirst(processedContent, fullMatch, <<PlaceholderText>>),
                               images)
            ELSE IF isStore \/ src.scheme = "data"
            THEN HtmlImageLoop(matches, k + 1, names,
                               ReplaceFirst(processedContent, fullMatch, <<AnkiImg(names[k])>>),
                               Assign(images, [f \in {names[k]} |-> imageData]))
            ELSE HtmlImageLoop(matches, k + 1, names,
                               ReplaceFirst(processedContent, fullMatch, <<StyledImg>>), images)

\* The while loop over the matches of markdownImageRegex,
\*   /!\[(.*?)\]$$(.*?)$$/g.
\* The two "$" after "\]" are end-of-input assertions, so the only text the
\* regex matches is "![" alt "]" at the very end of the content, on one line;
\* it is replaced, at its first occurrence, by <img src="" alt="alt">.  A
\* markdown image ![alt](src) ends with ")" and is never matched.
MarkdownImageLoop(processedContent) ==
    LET s == processedContent
        lastNL == {k \in 1..Len(s) : s[k] = NL}
        from == IF lastNL = {} THEN 1 ELSE (CHOOSE k \in lastNL : \A j \in lastNL : j <= k) + 1
        p == Find(s, <<"!", "[">>, from)
        fullMatch == Slice(s, p, Len(s))
        alt == IF Len(fullMatch) = 3 THEN <<"Image">> ELSE Slice(fullMatch, 3, Len(fullMatch) - 1)
        q == Find(s, fullMatch, 1)
    IN IF s # <<>> /\ s[Len(s)] = "]" /\ p > 0 /\ p + 2 <= Len(s)
       THEN Slice(s, 1, q - 1) \o <<"<img src='' alt='">> \o alt \o <<"'>">>
                \o Slice(s, q + Len(fullMatch), Len(s))
       ELSE s

processImagesForAnki(content, names) ==
    LET r == HtmlImageLoop(ImagesToAdd(content), 1, names, content, NoImages)
    IN [html |-> MarkdownImageLoop(r.html), images |-> r.images]

(***************************************************************************)
(* convertTableToHtml, convertListToHtml                                   *)
(***************************************************************************)
\* s.replace(/<d>(.*?)<d>/g, open + "$1" + close) for a delimiter d.
RECURSIVE WrapPairs(_, _, _, _)
WrapPairs(s, d, open, close) ==
    LET p == Find(s, d, 1)
        q == IF p = 0 THEN 0 ELSE Find(s, d, p + Len(d))
        inner == Slice(s, p + Len(d), q - 1)
    IN IF q = 0 THEN s
       ELSE IF NL \in {inner[k] : k \in 1..Len(inner)}
       THEN Slice(s, 1, p) \o WrapPairs(Slice(s, p + 1, Len(s)), d, open, close)
       ELSE Slice(s, 1, p - 1) \o <<open>> \o inner \o <<close>>
                \o WrapPairs(Slice(s, q + Len(d), Len(s)), d, open, close)

\* s.replace(/`([^`]+)`/g, open + "$1" + close): the text between the two
\* backticks is not empty and may hold line breaks.
RECURSIVE WrapCode(_, _, _)
WrapCode(s, open, close) ==
    LET p == Find(s, <<BT>>, 1)
        q == IF p = 0 THEN 0 ELSE Find(s, <<BT>>, p + 1)
    IN IF q = 0 THEN s
       ELSE IF q = p + 1 THEN Slice(s, 1, p) \o WrapCode(Slice(s, p + 1, Len(s)), open, close)
       ELSE Slice(s, 1, p - 1) \o <<open>> \o Slice(s, p + 1, q - 1) \o <<close>>
                \o WrapCode(Slice(s, q + 1, Len(s)), open, close)

cleanMarkdownInCell(txt) ==
    Trim(WrapCode(WrapPairs(WrapPairs(txt, <<"*", "*">>, "<strong>", "</strong>"),
                            <<"*">>, "<em>", "</em>"),
                  "<code>", "</code>"))

\* The alignment convertTableToHtml reads from one cell of the separator row.
AnkiAlignment(sep) ==
    LET trimmed == Trim(sep)
    IN IF StartsWith(trimmed, <<":">>) /\ EndsWith(trimmed, <<":">>) THEN "center"
       ELSE IF EndsWith(trimmed, <<":">>) THEN "right"
       ELSE "left"

\* alignments[i] || "left" for the 1-based column k.
AlignmentOf(alignments, k) == IF k <= Len(alignments) THEN alignments[k] ELSE "left"

\* <th style="... text-align: <align>; ..."> and <td style="... text-align: <align>; ...">
Th(align) ==
    CASE align = "center" -> "<th center>" [] align = "right" -> "<th right>"
      [] OTHER -> "<th left>"

Td(align) ==
    CASE align = "center" -> "<td center>" [] align = "right" -> "<td right>"
      [] OTHER -> "<td left>"

\* headers.forEach and cells.forEach: one element per cell.
HtmlCells(cells, alignments, isHeader) ==
    Flatten([k \in 1..Len(cells) |->
                <<IF isHeader THEN Th(AlignmentOf(alignments, k))
                  ELSE Td(AlignmentOf(alignments, k))>>
                \o cleanMarkdownInCell(cells[k])
                \o <<IF isHeader THEN "</th>" ELSE "</td>">>])

\* dataRows.forEach
RECURSIVE HtmlRows(_, _)
HtmlRows(dataRows, alignments) ==
    IF dataRows = <<>> THEN <<>>
    ELSE <<"<tr>">> \o HtmlCells(Cells(Head(dataRows)), alignments, FALSE)
             \o <<"</tr>">> \o HtmlRows(Tail(dataRows), alignments)

convertTableToHtml(tableText) ==
    LET lines == SelectSeq(Split(Trim(tableText)), IsTableLine)
        headers == Cells(lines[1])
        separators == RawCells(lines[2])
        alignments == [k \in 1..Len(separators) |-> AnkiAlignment(separators[k])]
        dataRows == Slice(lines, 3, Len(lines))
    IN IF Len(lines) < 2 THEN tableText
       ELSE <<"<table>">>
            \o (IF Len(headers) > 0
                THEN <<"<thead><tr>">> \o HtmlCells(headers, alignments, TRUE)
                         \o <<"</tr></thead>">>
                ELSE <<>>)
            \o (IF Len(dataRows) > 0
                THEN <<"<tbody>">> \o HtmlRows(dataRows, alignments) \o <<"</tbody>">>
                ELSE <<>>)
            \o <<"</table>">>

\* What a template literal makes of the Promise that the async function
\* cleanMarkdownForAnki returns.
ObjectPromise == "[object Promise]"

\* line.trim().match(/^\d+\./)
IsOrdered(line) ==
    LET t == Trim(line)
        n == PrefixLen(t, Digits)
    IN n >= 1 /\ Len(t) >= n + 1 /\ t[n + 1] = "."

\* convertListToHtml: the item texts are handed to cleanMarkdownForAnki, which
\* is async and not awaited, so every <li> holds the text of the Promise.
convertListToHtml(listText) ==
    LET lines == SelectSeq(Split(listText), LAMBDA l : Trim(l) # <<>>)
        isOrdered == IsOrdered(lines[1])
    IN IF Len(lines) = 0 THEN <<>>
       ELSE <<IF isOrdered THEN "<ol>" ELSE "<ul>">>
            \o Flatten([k \in 1..Len(lines) |-> <<"<li>", ObjectPromise, "</li>">>])
            \o <<IF isOrdered THEN "</ol>" ELSE "</ul>">>

(***************************************************************************)
(* cleanMarkdownForAnki                                                    *)
(***************************************************************************)
\* A line that /^\|.*\|[ \t]*$/m matches.
IsTableRegexLine(line) ==
    LET t == TrimEnd(line) IN Len(t) >= 2 /\ t[1] = "|" /\ t[Len(t)] = "|"

\* cleaned.replace(tableRegex, (match) => convertTableToHtml(match.trim())),
\* over the lines of the text: a match is a longest run of matching lines
\* together with the line break after it.
RECURSIVE ReplaceTables(_)
ReplaceTables(lines) ==
    IF lines = <<>> THEN <<>>
    ELSE IF IsTableRegexLine(lines[1])
    THEN LET e == RunEnd([k \in DOMAIN lines |-> IsTableRegexLine(lines[k])], 1)
             match == Join(Slice(lines, 1, e - 1)) \o (IF e <= Len(lines) THEN <<NL>> ELSE <<>>)
         IN convertTableToHtml(Trim(match)) \o ReplaceTables(Slice(lines, e, Len(lines)))
    ELSE IF Len(lines) = 1 THEN lines[1]
    ELSE lines[1] \o <<NL>> \o ReplaceTables(Tail(lines))

\* A line that /^[ \t]*[-*][ \t]+.+/m matches.
IsBulletRegexLine(line) ==
    LET t == TrimStart(line) IN Len(t) >= 3 /\ t[1] \in {"-", "*"} /\ t[2] \in {" ", TAB}

\* A line that /^[ \t]*\d+\.[ \t]+.+/m matches.
IsNumberRegexLine(line) ==
    LET t == TrimStart(line)
        n == PrefixLen(t, Digits)
    IN n >= 1 /\ Len(t) >= n + 3 /\ t[n + 1] = "." /\ t[n + 2] \in {" ", TAB}

\* cleaned.replace(listRegex, (match) => convertListToHtml(match)): a match
\* is a longest run of bullet lines, or of numbered lines, together with the
\* line break after it.
RECURSIVE ReplaceLists(_)
ReplaceLists(lines) ==
    IF lines = <<>> THEN <<>>
    ELSE IF IsBulletRegexLine(lines[1]) \/ IsNumberRegexLine(lines[1])
    THEN LET e == IF IsBulletRegexLine(lines[1])
                  THEN RunEnd([k \in DOMAIN lines |-> IsBulletRegexLine(lines[k])], 1)
                  ELSE RunEnd([k \in DOMAIN lines |-> IsNumberRegexLine(lines[k])], 1)
             match == Join(Slice(lines, 1, e - 1)) \o (IF e <= Len(lines) THEN <<NL>> ELSE <<>>)
         IN convertListToHtml(match) \o ReplaceLists(Slice(lines, e, Len(lines)))
    ELSE IF Len(lines) = 1 THEN lines[1]
    ELSE lines[1] \o <<NL>> \o ReplaceLists(Tail(lines))

\* The regex class \w.
Word == {"a", "b", "c", "d", "e", "w", "T", "1", "2"}

\* match.replace(/```\w*\n?/g, "").replace(/```$/, "") for the text between
\* the two fences of a match: the language tag and one line break go.
FencedCode(inner) ==
    LET n == PrefixLen(inner, Word)
    IN IF n < Len(inner) /\ inner[n + 1] = NL THEN Slice(inner, n + 2, Len(inner))
       ELSE Slice(inner, n + 1, Len(inner))

\* s.replace(/```[\s\S]*?```/g, ...)
RECURSIVE ReplaceCodeBlocks(_)
ReplaceCodeBlocks(s) ==
    LET p == Find(s, <<BT, BT, BT>>, 1)
        q == IF p = 0 THEN 0 ELSE Find(s, <<BT, BT, BT>>, p + 3)
    IN IF q = 0 THEN s
       ELSE Slice(s, 1, p - 1) \o <<"<pre><code>">> \o FencedCode(Slice(s, p + 3, q - 1))
                \o <<"</code></pre>">> \o ReplaceCodeBlocks(Slice(s, q + 3, Len(s)))

\* s.replace(/\[([^\]]+)\]$$([^)]+)$$/g, ...): after "\]" the regex asserts the
\* end of the input twice and then asks for one more character, so it matches
\* nothing and the text is returned as it is.
ReplaceLinks(s) == s

\* s.replace(/^<prefix> (.+)$/gm, open + "$1" + close) on one line.
WrapLine(line, prefix, open, close) ==
    IF StartsWith(line, prefix \o <<" ">>) /\ Len(line) > Len(prefix) + 1
    THEN <<open>> \o Slice(line, Len(prefix) + 2, Len(line)) \o <<close>>
    ELSE line

\* The blockquote replace and then the three header replaces, on one line.
BlockLine(line) ==
    WrapLine(WrapLine(WrapLine(WrapLine(line, <<">">>, "<blockquote>", "</blockquote>"),
                               <<"#", "#", "#">>, "<h4>", "</h4>"),
                      <<"#", "#">>, "<h3>", "</h3>"),
             <<"#">>, "<h2>", "</h2>")

\* .replace(/\n\n/g, "<br><br>").replace(/\n/g, "<br>")
LineBreaks(s) == [k \in 1..Len(s) |-> IF s[k] = NL THEN "<br>" ELSE s[k]]

\* .replace(/\s+/g, " ")
RECURSIVE CollapseSpaces(_)
CollapseSpaces(s) ==
    IF s = <<>> THEN <<>>
    ELSE IF IsSpace(Head(s)) THEN <<" ">> \o CollapseSpaces(TrimStart(s))
    ELSE <<Head(s)>> \o CollapseSpaces(Tail(s))

\* The replaces of cleanMarkdownForAnki from the bold markers to the note links.
InlineMarkup(s) ==
    ReplaceNoteLinks(
        ReplaceLinks(ReplaceCodeBlocks(
            WrapCode(WrapPairs(WrapPairs(s, <<"*", "*">>, "<strong>", "</strong>"),
                               <<"*">>, "<em>", "</em>"),
                     "<code style>", "</code>"))),
        <<"<strong>">>, <<"</strong>">>)

\* The blockquote and header replaces over the lines of the text.
BlockMarkup(lines) == Join([k \in 1..Len(lines) |-> BlockLine(lines[k])])

\* cleanMarkdownForAnki after its call of processImagesForAnki.
AnkiHtml(html) ==
    Trim(CollapseSpaces(LineBreaks(BlockMarkup(Split(InlineMarkup(
        ReplaceLists(Split(ReplaceTables(Split(html))))))))))

\* The result of cleanMarkdownForAnki given that of processImagesForAnki.
Cleaned(processed) == [content |-> AnkiHtml(processed.html), images |-> processed.images]

cleanMarkdownForAnki(txt, names) == Cleaned(processImagesForAnki(txt, names))

(***************************************************************************)
(* parseNotesToFlashcards                                                  *)
(***************************************************************************)
NoParser == [lines |-> <<>>, i |-> 0, currentHeading |-> <<>>, currentContent |-> <<>>]

\* The most images one card content holds: the bound on the filenames drawn
\* for one call of cleanMarkdownForAnki.
MaxImages == 3

NameDraws == [1..MaxImages -> FileNames]

\* The card pushed for a heading and a text, given the filenames the call of
\* cleanMarkdownForAnki generates.
FlashCard(front, cleaned) ==
    [front |-> front, back |-> cleaned.content, images |-> cleaned.images]

Card(front, txt, names) == FlashCard(front, cleanMarkdownForAnki(txt, names))

\* if (currentHeading && currentContent.length > 0) { contentText = ...;
\* if (contentText) push }: the cards after the section held in the parser
\* state has been saved.
Saved(currentHeading, currentContent) ==
    currentHeading # <<>> /\ Len(currentContent) > 0 /\ Trim(Join(currentContent)) # <<>>

SaveSection(cards, currentHeading, currentContent, names) ==
    IF Saved(currentHeading, currentContent)
    THEN Append(cards, Card(currentHeading, Trim(Join(currentContent)), names))
    ELSE cards

\* The call of cleanMarkdownForAnki made for a card, as the trace records it.
CleanCall(made, txt) ==
    IF made
    THEN [call |-> "cleanMarkdownForAnki", first |-> 0, next |-> 0, logFrom |-> 0, y0 |-> 0,
          pages0 |-> 0, txt |-> txt]
    ELSE NoTrace

\* The lines.forEach pass: it builds processSection closures that are never
\* called, so it pushes no card; what it leaves behind is the heading and the
\* content lines of the last section of the body.
RECURSIVE FirstPass(_, _, _)
FirstPass(lines, currentHeading, currentContent) ==
    IF lines = <<>>
    THEN [currentHeading |-> currentHeading, currentContent |-> currentContent]
    ELSE IF StartsWith(Head(lines), H1)
    THEN FirstPass(Tail(lines), Trim(Substring(Head(lines), 2)), <<>>)
    ELSE IF currentHeading # <<>>
    THEN FirstPass(Tail(lines), currentHeading, Append(currentContent, Head(lines)))
    ELSE FirstPass(Tail(lines), currentHeading, currentContent)

\* parseNotesToFlashcards up to its for loop: the summary card, the split
\* of the body and the forEach pass.
AnkiSummary ==
    /\ exporter = "anki" /\ pc = "start"
    /\ \E names \in NameDraws :
          flashcards' = IF Trim(summary) # <<>>
                        THEN <<Card(title \o <<" - Summary">>, summary, names)>>
                        ELSE <<>>
    /\ \E left \in {FirstPass(Split(markdown), <<>>, <<>>)} :
          parser' = [lines |-> Split(markdown), i |-> 0,
                     currentHeading |-> left.currentHeading,
                     currentContent |-> left.currentContent]
    /\ pc' = "lines"
    /\ trace' = CleanCall(Trim(summary) # <<>>, summary)
    /\ UNCHANGED <<exporter, title, summary, markdown, sections, noteLinks, doc, y, index,
                   sect, sectionBoundaries, continuationPages, zip, downloads, thrown>>

\* One iteration of the for loop over the lines.
AnkiLine ==
    /\ exporter = "anki" /\ pc = "lines" /\ parser.i < Len(parser.lines)
    /\ \E line \in {parser.lines[parser.i + 1]} :
          IF StartsWith(line, H1)
          THEN /\ \E names \in NameDraws :
                     flashcards' = SaveSection(flashcards, parser.currentHeading,
                                               parser.currentContent, names)
               /\ parser' = [parser EXCEPT !.i = @ + 1,
                                           !.currentHeading = Trim(Substring(line, 2)),
                                           !.currentContent = <<>>]
          ELSE /\ flashcards' = flashcards
               /\ parser' = [parser EXCEPT !.i = @ + 1,
                                           !.currentContent =
                                               IF parser.currentHeading # <<>>
                                               THEN Append(@, line) ELSE @]
    /\ trace' = CleanCall(/\ StartsWith(parser.lines[parser.i + 1], H1)
                          /\ Saved(parser.currentHeading, parser.currentContent),
                          Trim(Join(parser.currentContent)))
    /\ UNCHANGED <<exporter, title, summary, markdown, pc, sections, noteLinks, doc, y, index,
                   sect, sectionBoundaries, continuationPages, zip, downloads, thrown>>

\* The statements after the for loop: the last section is saved and the
\* cards are returned to exportToAnki.
AnkiLast ==
    /\ exporter = "anki" /\ pc = "lines" /\ parser.i = Len(parser.lines)
    /\ \E names \in NameDraws :
          flashcards' = SaveSection(flashcards, parser.currentHeading, parser.currentContent,
                                    names)
    /\ parser' = NoParser
    /\ pc' = "parsed"
    /\ trace' = CleanCall(Saved(parser.currentHeading, parser.currentContent),
                          Trim(Join(parser.currentContent)))
    /\ UNCHANGED <<exporter, title, summary, markdown, sections, noteLinks, doc, y, index,
                   sect, sectionBoundaries, continuationPages, zip, downloads, thrown>>

(***************************************************************************)
(* generateAnkiTSV, exportToAnki                                           *)
(***************************************************************************)
\* A faulty TSV line: the front and the back are written as they are.
TsvLineRaw(card) == card.front \o <<TAB>> \o card.back

\* card.front.replace(/\t/g, " ").replace(/\r?\n/g, " ") + "\t" +
\* card.back.replace(/\t/g, " ")
TsvLine(card) ==
    [k \in 1..Len(card.front) |-> IF card.front[k] \in {TAB, NL} THEN " " ELSE card.front[k]]
        \o <<TAB>>
        \o [k \in 1..Len(card.back) |-> IF card.back[k] = TAB THEN " " ELSE card.back[k]]

generateAnkiTSV(cards) == Join([k \in 1..Len(cards) |-> TsvLine(cards[k])])

IsAlnum(c) == c \in {"a", "b", "c", "d", "e", "w", "A", "B", "T", "1", "2"}

\* title.replace(/[^a-z0-9]/gi, "-").toLowerCase()
AnkiStem(t) == [k \in 1..Len(t) |-> IF IsAlnum(t[k]) THEN ToLower(t[k]) ELSE "-"]

\* flashcards.forEach((card) => Object.assign(allImages, card.images))
RECURSIVE AllImages(_)
AllImages(cards) ==
    IF cards = <<>> THEN NoImages
    ELSE Assign(AllImages(Slice(cards, 1, Len(cards) - 1)), cards[Len(cards)].images)

NoZip == [files |-> {}, tsv |-> <<>>, images |-> NoImages, readme |-> [cards |-> 0, images |-> 0]]

\* A faulty check: an empty card list is let through to the archive.
AnkiEmptyGoesOn ==
    /\ exporter = "anki" /\ pc = "parsed" /\ Len(flashcards) = 0
    /\ zip' = [NoZip EXCEPT !.files = {<<"README.txt">>}]
    /\ pc' = "zipped"
    /\ trace' = NoTrace
    /\ UNCHANGED <<exporter, title, summary, markdown, sections, noteLinks, doc, y, index,
                   sect, sectionBoundaries, continuationPages, parser, flashcards, downloads,
                   thrown>>

\* if (flashcards.length === 0) throw new Error(...): the catch block throws
\* the same error again.
AnkiEmpty ==
    /\ exporter = "anki" /\ pc = "parsed" /\ Len(flashcards) = 0
    /\ thrown' = [raised |-> TRUE,
                  message |-> <<"No flashcards could be generated from this note.">>,
                  cause |-> NoCause]
    /\ pc' = "failed"
    /\ trace' = NoTrace
    /\ UNCHANGED <<exporter, title, summary, markdown, sections, noteLinks, doc, y, index,
                   sect, sectionBoundaries, continuationPages, parser, flashcards, zip,
                   downloads>>

\* The archive is filled: the TSV file, one file per image whose data URL
\* could be fetched (a failed fetch is caught and the image left out), and
\* the readme.
AnkiZip ==
    /\ exporter = "anki" /\ pc = "parsed" /\ Len(flashcards) > 0
    /\ \E allImages \in {AllImages(flashcards)} :
       \E lost \in SUBSET DOMAIN allImages :
          zip' = [files |-> {AnkiStem(title) \o <<"-flashcards.txt">>, <<"README.txt">>}
                               \cup {<<"images/", f>> : f \in DOMAIN allImages \ lost},
                  tsv |-> generateAnkiTSV(flashcards),
                  images |-> [f \in DOMAIN allImages \ lost |-> allImages[f]],
                  readme |-> [cards |-> Len(flashcards),
                              images |-> Cardinality(DOMAIN allImages)]]
    /\ pc' = "zipped"
    /\ trace' = NoTrace
    /\ UNCHANGED <<exporter, title, summary, markdown, sections, noteLinks, doc, y, index,
                   sect, sectionBoundaries, continuationPages, parser, flashcards, downloads,
                   thrown>>

\* zip.generateAsync resolves and downloadBlob is called.
AnkiDownload ==
    /\ exporter = "anki" /\ pc = "zipped"
    /\ downloads' = Append(downloads, AnkiStem(title) \o <<"-anki-flashcards.zip">>)
    /\ pc' = "done"
    /\ trace' = NoTrace
    /\ UNCHANGED <<exporter, title, summary, markdown, sections, noteLinks, doc, y, index,
                   sect, sectionBoundaries, continuationPages, parser, flashcards, zip,
                   thrown>>

\* zip.generateAsync rejects: the catch block throws the error again, as it is.
AnkiThrow ==
    /\ exporter = "anki" /\ pc = "zipped"
    /\ \E error \in Failures :
          thrown' = [raised |-> TRUE, message |-> error.message, cause |-> error]
    /\ pc' = "failed"
    /\ zip' = NoZip /\ flashcards' = <<>>
    /\ trace' = NoTrace
    /\ UNCHANGED <<exporter, title, summary, markdown, sections, noteLinks, doc, y, index,
                   sect, sectionBoundaries, continuationPages, parser, downloads>>

NextAnki ==
    \/ AnkiSummary
    \/ AnkiLine
    \/ AnkiLast
    \/ AnkiEmpty
    \/ AnkiZip
    \/ AnkiDownload
    \/ AnkiThrow

(***************************************************************************)
(* Inputs                                                                  *)
(***************************************************************************)
\* The longest summary, in wrapped lines, and the longest body, in blocks.
MaxSummaryLines == 37

MaxBlocks == 3

\* All sequences over S of length 0..n.
RECURSIVE SeqsUpTo(_, _)
SeqsUpTo(S, n) ==
    IF n = 0 THEN {<<>>}
    ELSE LET shorter == SeqsUpTo(S, n - 1)
         IN shorter \cup {Append(q, e) : q \in {t \in shorter : Len(t) = n - 1}, e \in S}

\* A summary of n wrapped lines.
SummaryOf(n) == [k \in 1..n |-> "w"]

\* Summaries that leave the first section at the top of the first page, and
\* summaries that push it to the bottom of the page.
PdfSummaries == {SummaryOf(n) : n \in {0} \cup ((MaxSummaryLines - 3)..MaxSummaryLines)}

\* Blocks of body lines.
PdfItems ==
    {<< <<"#", " ", "a">> >>,
     << <<"#", " ", "b">> >>,
     << <<"#", " ">> >>,
     << <<"w", "w">> >>,
     << <<"|", "a", "|", "b", "|">>, <<"|", ":", "-", ":", "|", "-", ":", "|">>,
        <<"|", "c", "|", "d", "|">>, <<"|", "e", "|">> >>,
     << <<"-", " ", "a">>, <<"*", " ", "w", "w">> >>,
     << <<"1", ".", " ", "a">>, <<"2", ".", " ", "b">> >>,
     << <<BT, BT, BT>>, <<"a">>, <<"b">>, <<BT, BT, BT>> >>,
     << <<">", " ", "a">>, <<">", "w", "w">> >>,
     << <<"<img data>">> >>}

BodiesOf(items, n) == {Join(Flatten(q)) : q \in SeqsUpTo(items, n) \ {<<>>}}

InitLocals ==
    /\ pc = "start"
    /\ sections = <<>> /\ noteLinks = <<>> /\ doc = NewDoc /\ y = 0 /\ index = 0
    /\ sect = NoSection /\ sectionBoundaries = <<>> /\ continuationPages = <<>>
    /\ parser = NoParser /\ flashcards = <<>> /\ zip = NoZip /\ downloads = <<>>
    /\ thrown = NoError /\ trace = NoTrace

InitPdf ==
    /\ exporter = "pdf"
    /\ title = <<"T", " ", "a">>
    /\ summary \in PdfSummaries
    /\ markdown \in BodiesOf(PdfItems, MaxBlocks)
    /\ InitLocals

SpecPdf == InitPdf /\ [][NextPdf]_vars

\* The longest body handed to the flashcard exporter, in blocks.
MaxCardBlocks == 4

\* Blocks of body lines for the flashcard exporter: headings (one of them
\* with no text), a text line, a line of whitespace, a list, an image.
AnkiItems ==
    {<< <<"#", " ", "a">> >>,
     << <<"#", " ", "b">> >>,
     << <<"#", " ">> >>,
     << <<"a">> >>,
     << <<" ">> >>,
     << <<"-", " ", "a">>, <<"-", " ", "b">> >>,
     << <<"<img s1>">> >>}

AnkiSummaries == {<<>>, <<" ">>, <<"c">>}

InitAnki ==
    /\ exporter = "anki"
    /\ title = <<"T", " ", "a">>
    /\ summary \in AnkiSummaries
    /\ markdown \in BodiesOf(AnkiItems, MaxCardBlocks) \cup {<<>>}
    /\ InitLocals

SpecAnki == InitAnki /\ [][NextAnki]_vars

\* Bodies with image references of every kind, for both exporters.
ImageItems ==
    {<< <<"#", " ", "a">> >>,
     << <<"a">> >>,
     << <<"<img s1>">> >>,
     << <<"<img s2>">> >>,
     << <<"<img s3>">> >>,
     << <<"<img ph>">> >>,
     << <<"<img url>">> >>,
     << <<"<img data>">> >>}

InitExport ==
    /\ exporter \in {"pdf", "anki"}
    /\ title = <<"T", " ", "a">>
    /\ summary \in {<<>>, <<"c">>}
    /\ markdown \in BodiesOf(ImageItems, MaxBlocks) \cup {<<>>}
    /\ InitLocals

\* The editor page: when exportToPdf has ended, the user exports the same
\* note as flashcards (handleExportPdf, then handleExportAnki).
ExportOther ==
    /\ exporter = "pdf" /\ pc \in {"done", "failed"}
    /\ exporter' = "anki"
    /\ pc' = "start"
    /\ sections' = <<>> /\ noteLinks' = <<>> /\ doc' = NewDoc /\ y' = 0 /\ index' = 0
    /\ sect' = NoSection /\ sectionBoundaries' = <<>> /\ continuationPages' = <<>>
    /\ thrown' = NoError /\ trace' = NoTrace
    /\ UNCHANGED <<title, summary, markdown, parser, flashcards, zip, downloads>>

NextExport == NextPdf \/ NextAnki \/ ExportOther

SpecExport == InitExport /\ [][NextExport]_vars

\* The most blocks of a body with note links.
MaxLinkBlocks == 3

\* handleExportPdf for notes whose bodies hold [[...]] links: a title once,
\* twice (the second time padded with spaces), two links on a line, a blank
\* title, empty brackets, single brackets; with a short summary and with one
\* that leaves no room for the listing on the last page.
InitLinks ==
    /\ exporter = "pdf"
    /\ title = <<"T", " ", "a">>
    /\ summary \in {<<>>, SummaryOf(MaxSummaryLines - 1)}
    /\ markdown \in BodiesOf({<< <<"#", " ", "a">> >>,
                              << <<"[", "[", "a", "]", "]">> >>,
                              << <<"[", "[", " ", "a", " ", "]", "]", " ",
                                   "[", "[", "b", "]", "]">> >>,
                              << <<"[", "[", "b", "]", "]">> >>,
                              << <<"[", "[", " ", "]", "]">> >>,
                              << <<"[", "[", "]", "]">> >>,
                              << <<"[", "a", "]">> >>,
                              << <<"<img data>">> >>}, MaxLinkBlocks)
    /\ InitLocals

SpecLinks == InitLinks /\ [][NextPdf]_vars

\* The most blocks of a body exported under one of the titles below.
MaxTitleBlocks == 2

\* handleExportPdf and handleExportAnki for notes whose title holds a space,
\* a run of two spaces, a full stop, a tab, a line break, or an upper-case
\* letter, a hyphen and a digit, and whose summary, headings and text may
\* hold tabs.
InitTitles ==
    /\ exporter \in {"pdf", "anki"}
    /\ title \in {<<"T", " ", "a">>, <<"a", " ", " ", "b">>, <<"a", ".", "b">>,
                  <<"T", TAB, "a">>, <<"T", NL, "a">>, <<"A", "-", "1">>}
    /\ summary \in {<<>>, <<"c", TAB, "d">>}
    /\ markdown \in BodiesOf({<< <<"#", " ", "a">> >>,
                              << <<"#", " ", "a", TAB, "b">> >>,
                              << <<"a", TAB, "b">> >>,
                              << <<"<img data>">> >>}, MaxTitleBlocks) \cup {<<>>}
    /\ InitLocals

SpecTitles == InitTitles /\ [][NextExport]_vars

\* The most blocks of a body that holds tables.
MaxTableBlocks == 3

\* handleExportPdf and handleExportAnki for notes whose bodies hold a single
\* pipe-bounded line, a table of three columns whose separator row centres
\* the first, right-aligns the second and has no cell for the third and
\* whose data row has one cell, and a table of two columns whose data row
\* has three cells.
InitTables ==
    /\ exporter \in {"pdf", "anki"}
    /\ title = <<"T", " ", "a">>
    /\ summary \in {<<>>, <<"c">>}
    /\ markdown \in BodiesOf({<< <<"#", " ", "a">> >>,
                              << <<"|", "a", "|", "b", "|">> >>,
                              << <<"|", "a", "|", "b", "|", "e", "|">>,
                                 <<"|", ":", "-", ":", "|", "-", ":", "|">>,
                                 <<"|", "c", "|">> >>,
                              << <<"|", "a", "|", "b", "|">>,
                                 <<"|", ":", "-", "|", "-", ":", "|">>,
                                 <<"|", "c", "|", "d", "|", "e", "|">> >>,
                              << <<"a">> >>,
                              << <<"<img data>">> >>}, MaxTableBlocks) \cup {<<>>}
    /\ InitLocals

SpecTables == InitTables /\ [][NextExport]_vars

\* The most blocks of a body whose images are skipped.
MaxSkipBlocks == 3

\* handleExportPdf for notes with images that addImagesToPdf skips (the
\* placeholder marker, a store id that resolves to nothing, a lookup that
\* fails) and one that it places, under no summary and under one that leaves
\* the first section near the bottom of the first page.
InitSkips ==
    /\ exporter = "pdf"
    /\ title = <<"T", " ", "a">>
    /\ summary \in {<<>>, SummaryOf(MaxSummaryLines - 3)}
    /\ markdown \in BodiesOf({<< <<"#", " ", "a">> >>,
                              << <<"a">> >>,
                              << <<"<img ph>">> >>,
                              << <<"<img s2>">> >>,
                              << <<"<img s3>">> >>,
                              << <<"<img data>">> >>}, MaxSkipBlocks)
    /\ InitLocals

SpecSkips == InitSkips /\ [][NextPdf]_vars

\* The most blocks of a body with images in both forms.
MaxImageBlocks == 3

\* handleExportPdf and handleExportAnki for notes with images in the HTML
\* form and in the markdown form, with a stored payload, an inline payload
\* or an external URL as the source.
InitImages ==
    /\ exporter \in {"pdf", "anki"}
    /\ title = <<"T", " ", "a">>
    /\ summary \in {<<>>, <<"c">>}
    /\ markdown \in BodiesOf({<< <<"#", " ", "a">> >>,
                              << <<"a">> >>,
                              << <<"<img s1>">> >>,
                              << <<"<img data>">> >>,
                              << <<"<img url>">> >>,
                              << <<"![](s1)">> >>,
                              << <<"![](data)">> >>}, MaxImageBlocks)
    /\ InitLocals

SpecImages == InitImages /\ [][NextExport]_vars

\* The most blocks of a body with code blocks and links.
MaxMarkupBlocks == 3

\* handleExportAnki for notes whose bodies hold a fenced code block, a
\* fenced code block with an emphasis marker in it, a markdown link and a
\* line of text.
InitMarkup ==
    /\ exporter = "anki"
    /\ title = <<"T", " ", "a">>
    /\ summary \in {<<>>, <<"c">>}
    /\ markdown \in BodiesOf({<< <<"#", " ", "a">> >>,
                              << <<"a">> >>,
                              << <<BT, BT, BT>>, <<"a">>, <<"b">>, <<BT, BT, BT>> >>,
                              << <<BT, BT, BT>>, <<"*", "a", "*">>, <<BT, BT, BT>> >>,
                              << <<"[", "a", "]", "(", "b", ")">> >>},
                             MaxMarkupBlocks) \cup {<<>>}
    /\ InitLocals

SpecMarkup == InitMarkup /\ [][NextAnki]_vars

\* The most blocks of a body whose lines wrap.
MaxLayoutBlocks == 3

\* The lines of the longest code block: more than a page holds.
MaxCodeLines == 46

\* handleExportPdf for notes whose headings and table cells wrap into
\* several lines, whose code block is longer than a page or has no closing
\* fence, with a list of either kind, a blank line and a quoted image, under
\* no summary and under summaries that leave the first section near the
\* bottom of the first page.
InitLayout ==
    /\ exporter = "pdf"
    /\ title = <<"T", " ", "a">>
    /\ summary \in {SummaryOf(n) : n \in {0} \cup ((MaxSummaryLines - 5)..(MaxSummaryLines - 1))}
    /\ markdown \in BodiesOf({<< <<"#", " ", "w", "w", "w", "w">> >>,
                              << <<"#", " ", "a">> >>,
                              << <<"a">> >>,
                              << <<"#", "#", " ", "w", "w">> >>,
                              << <<"|", "w", "w", "|", "a", "|">>, <<"|", "-", "|", "-", "|">>,
                                 <<"|", "w", "w", "|", "b", "|">> >>,
                              << <<BT, BT, BT>>, <<"a">>, <<"b">>, <<"c">>, <<BT, BT, BT>> >>,
                              << <<BT, BT, BT>>, <<"b">>, <<" ">>, <<"c">> >>,
                              << <<"-", " ", "a">>, <<"1", ".", " ", "b">>, <<" ">> >>,
                              << <<">", " ", "<img data>">> >>,
                              << <<"<img data>">> >>}, MaxLayoutBlocks)
                    \cup {Join(pre \o << <<BT, BT, BT>> >> \o [k \in 1..MaxCodeLines |-> <<"a">>]
                                    \o << <<BT, BT, BT>> >>) :
                              pre \in {<<>>, << <<"#", " ", "a">> >>}}
    /\ InitLocals

SpecLayout == InitLayout /\ [][NextPdf]_vars

\* The most sections of a body made of whole sections.
MaxSpanSections == 3

\* handleExportPdf for notes of up to three sections: a short one, one whose
\* heading wraps into more lines than its body has, one with blank content,
\* one whose paragraph wraps into six lines, one with an image; under no
\* summary and under summaries that leave the first section in the lower
\* part of the first page.
InitSpans ==
    /\ exporter = "pdf"
    /\ title = <<"T", " ", "a">>
    /\ summary \in {SummaryOf(n) : n \in {0} \cup ((MaxSummaryLines - 7)..(MaxSummaryLines - 3))}
    /\ markdown \in BodiesOf({<< <<"#", " ", "a">>, <<"a">> >>,
                              << <<"#", " ", "w", "w", "w", "w">>, <<"b">> >>,
                              << <<"#", " ", "b">>, <<" ">> >>,
                              << <<"#", " ", "c">>, <<"w", "w", "w", "w", "w", "w">> >>,
                              << <<"#", " ", "d">>, <<"<img data>">> >>}, MaxSpanSections)
    /\ InitLocals

SpecSpans == InitSpans /\ [][NextPdf]_vars

(***************************************************************************)
(* The section splitter as the specification describes it                  *)
(***************************************************************************)
\* The indexes of the lines of a body that begin with "# ", in order.
HeadingLines(lines) == SelectSeq([k \in 1..Len(lines) |-> k], LAMBDA k : StartsWith(lines[k], H1))

\* The body lines of the section whose heading is line k: those up to the
\* next top-level heading.
SectionBody(lines, k) == Slice(lines, k + 1, 
          RunEnd([j \in DOMAIN lines |-> ~StartsWith(lines[j], H1)], k + 1) - 1)

\* The heading lines of the sections whose content is not whitespace only.
NonBlankSections(lines) ==
    SelectSeq(HeadingLines(lines), LAMBDA k : Trim(Join(SectionBody(lines, k))) # <<>>)

SummaryCards == IF Trim(summary) # <<>> THEN 1 ELSE 0

\* The fronts the card list is to have: the summary card's, then the heading
\* text of every section with content, in source order.
ExpectedFronts ==
    (IF Trim(summary) # <<>> THEN <<title \o <<" - Summary">>>> ELSE <<>>)
        \o [n \in 1..Len(NonBlankSections(Split(markdown))) |->
               Trim(Substring(Split(markdown)[NonBlankSections(Split(markdown))[n]], 2))]

(***************************************************************************)
(* Claims                                                                  *)
(***************************************************************************)
\* C1: for every title, summary and body, parseNotesToFlashcards returns
\* exactly N + (1 if the summary is not blank, else 0) cards, where N is the
\* number of top-level sections of the body whose content is not whitespace
\* only.
C1_CardCount ==
    (exporter = "anki" /\ pc = "parsed")
        => Len(flashcards) = Len(NonBlankSections(Split(markdown))) + SummaryCards

\* C2: the card list returned by parseNotesToFlashcards is the summary card
\* (front = title + " - Summary") when the summary is not blank, followed by
\* one card per section with content, in source order, each with the
\* section's heading text as its front; no section gives more than one card.
C2_CardFronts ==
    (exporter = "anki" /\ pc = "parsed")
        => [k \in 1..Len(flashcards) |-> flashcards[k].front] = ExpectedFronts

\* C3: for a body with N >= 1 lines that begin with "# ", parseMarkdown
\* returns exactly N sections, in the order of those lines; with no such line
\* it returns no section.
C3_SectionPerHeading ==
    (exporter = "pdf" /\ pc = "sections")
        => /\ Len(sections) = Len(HeadingLines(Split(markdown)))
           /\ \A n \in 1..Len(sections) :
                 sections[n].heading = Substring(Split(markdown)[HeadingLines(Split(markdown))[n]], 2)

\* C4: when the body has no top-level heading line, exportToPdf and
\* exportToAnki both end by throwing, and neither calls the download helper,
\* whatever the title and the summary.
C4_NoHeadingIsAnError ==
    HeadingLines(Split(markdown)) = <<>>
        => /\ downloads = <<>>
           /\ pc = "done" => thrown.raised

\* C5: after every block render call of the PDF layout engine has returned,
\* and wherever the section loop of exportToPdf holds a cursor, the cursor
\* is on the printable part of the page: margin <= y <= pageHeight - margin.
C5_CursorOnPage ==
    /\ (exporter = "pdf" /\ pc = "sections") => (margin <= y /\ y <= pageHeight - margin)
    /\ (exporter = "pdf" /\ pc \in {"render", "images"})
           => (margin <= sect.currentY /\ sect.currentY <= pageHeight - margin)

(***************************************************************************)
(* What a block render call drew                                           *)
\* The draw calls made by the call that the trace records.
Drawn == Slice(doc.log, trace.logFrom + 1, Len(doc.log))

\* The texts of the draw calls of s that carry one of the tags, in order.
TextsOf(s, tags) ==
    LET kept == SelectSeq(s, LAMBDA e : e.tag \in tags)
    IN [k \in 1..Len(kept) |-> kept[k].txt]

\* The wrapped lines of a piece of text, as they are to appear in the PDF.
Wrapped(txt) == SplitTextToSize(cleanMarkdown(Trim(txt)))

\* The text of a list line after its marker.
ItemText(line) ==
    LET t == Trim(line)
    IN IF t[1] \in {"-", "*"} THEN Substring(t, 1) ELSE Substring(t, PrefixLen(t, Digits) + 1)

\* The lines between the fences of a code block.
CodeLines(lines) ==
    IF Len(lines) >= 2 /\ IsFence(lines[Len(lines)]) THEN Slice(lines, 2, Len(lines) - 1)
    ELSE Slice(lines, 2, Len(lines))

\* The wrapped cell lines of a data row of a table with n columns.
RowTexts(row, n) ==
    Flatten([k \in 1..Min(Len(Cells(row)), n) |-> Wrapped(Cells(row)[k])])

\* The texts a block is to put on the page, in source order: every wrapped
\* line of a paragraph, of each list item and of each quote line, every code
\* line, and the cells of every data row of a table.
ExpectedTexts(call, lines) ==
    CASE call = "paragraph" -> SplitTextToSize(cleanMarkdown(lines[1]))
      [] call = "renderList" -> Flatten([k \in 1..Len(lines) |-> Wrapped(ItemText(lines[k]))])
      [] call = "renderCodeBlock" -> [k \in 1..Len(CodeLines(lines)) |-> CodeLines(lines)[k]]
      [] call = "renderBlockquote" ->
             Flatten([k \in 1..Len(lines) |-> Wrapped(Substring(Trim(lines[k]), 1))])
      [] call = "renderTable" ->
             Flatten([k \in 1..(Len(lines) - 2) |-> RowTexts(lines[k + 2], Len(Cells(lines[1])))])

BlockCalls == {"paragraph", "renderList", "renderCodeBlock", "renderBlockquote", "renderTable"}

ContentTags == {"para", "li", "code", "quote", "td"}

\* C6: every wrapped text line, list item, code line, quote line and data row
\* of a paragraph, list, code block, blockquote or table is drawn exactly
\* once and in source order, however many page breaks occur inside the block.
C6_DrawnOnceInOrder ==
    (exporter = "pdf" /\ pc = "render" /\ trace.call \in BlockCalls)
        => TextsOf(Drawn, ContentTags) = ExpectedTexts(trace.call, Split(trace.txt))

\* A block was split by a page break: two of its lines are on different pages.
C6_Witness ==
    /\ exporter = "pdf" /\ pc = "render" /\ trace.call \in BlockCalls
    /\ \E j, k \in 1..Len(Drawn) :
          /\ j < k
          /\ Drawn[j].tag \in ContentTags /\ Drawn[k].tag \in ContentTags
          /\ Drawn[j].page < Drawn[k].page

\* The header cells, the header separator and the data cells that a call of
\* renderTable drew on page p, in order.
TableOnPage(p) == SelectSeq(Drawn, LAMBDA e : e.page = p /\ e.tag \in {"th", "thline", "td"})

TablePages == {Drawn[k].page : k \in {j \in 1..Len(Drawn) : Drawn[j].tag \in {"th", "thline", "td"}}}

\* What makes a header cell: its text, where it is put and how it is aligned.
HeaderCell(e) == [txt |-> e.txt, x |-> e.x, align |-> e.align]

\* C7: in renderTable, whenever a page break occurs before a data row, the
\* header row is redrawn on the new page with the column texts, widths and
\* alignments of the first page, and the header separator is redrawn, before
\* any data row is drawn on that page; the header is drawn exactly once on
\* each page the table occupies.
C7_HeaderOnEveryPage ==
    (exporter = "pdf" /\ pc = "render" /\ trace.call = "renderTable" /\ TablePages # {})
        => LET n == Len(Cells(Split(trace.txt)[1]))
               first == CHOOSE p \in TablePages : \A q \in TablePages : p <= q
           IN \A p \in TablePages :
                 /\ Len(TableOnPage(p)) >= n + 1
                 /\ \A k \in 1..n :
                       /\ TableOnPage(p)[k].tag = "th"
                       /\ HeaderCell(TableOnPage(p)[k]) = HeaderCell(TableOnPage(first)[k])
                       /\ TableOnPage(p)[k].txt = cleanMarkdown(Cells(Split(trace.txt)[1])[k])
                 /\ TableOnPage(p)[n + 1].tag = "thline"
                 /\ TableOnPage(p)[n + 1].x = TableOnPage(first)[n + 1].x
                 /\ \A k \in (n + 2)..Len(TableOnPage(p)) : TableOnPage(p)[k].tag = "td"

\* A table whose data rows are on two pages.
C7_Witness ==
    /\ exporter = "pdf" /\ pc = "render" /\ trace.call = "renderTable"
    /\ \E j, k \in 1..Len(Drawn) :
          Drawn[j].tag = "td" /\ Drawn[k].tag = "td" /\ Drawn[j].page < Drawn[k].page

\* C8: every image placed by addImagesToPdf, of intrinsic size w x h, has a
\* height of at most maxImageHeight and a width of at most maxWidth, keeps
\* its aspect ratio (width * h = height * w), and is as wide as maxWidth
\* exactly when its unclamped height maxWidth * h / w is at most
\* maxImageHeight.
C8_ImageScaling ==
    \A k \in 1..Len(doc.log) :
        doc.log[k].op = "image"
            => LET g == doc.log[k].img
                   maxWidth == contentWidth - 100
               IN /\ g.hNum <= maxImageHeight * g.den
                  /\ g.wNum <= maxWidth * g.den
                  /\ g.wNum * g.ih = g.hNum * g.iw
                  /\ (g.wNum = maxWidth * g.den) <=> (maxWidth * g.ih <= maxImageHeight * g.iw)

\* An image whose height was clamped and one whose height was not.
C8_Witness ==
    /\ \E k \in 1..Len(doc.log) :
          /\ doc.log[k].op = "image"
          /\ doc.log[k].img.hNum = maxImageHeight * doc.log[k].img.den
          /\ doc.log[k].img.wNum < (contentWidth - 100) * doc.log[k].img.den
    /\ \E k \in 1..Len(doc.log) :
          /\ doc.log[k].op = "image"
          /\ doc.log[k].img.hNum < maxImageHeight * doc.log[k].img.den

\* The image tags whose store id is not found (s2) or whose lookup fails (s3).
UnresolvedTags == {"<img s2>", "<img s3>"}

Count(s, tokens) == Cardinality({k \in 1..Len(s) : s[k] \in tokens})

\* C9: an image reference whose store id is not found, or whose lookup
\* fails, never aborts an export: exportToPdf goes on and places no image
\* for it, and the flashcard transformer goes on, puts a textual placeholder
\* in the place of the tag and adds no entry for it to the card's image map.
C9_UnresolvedImageIsSkipped ==
    /\ (exporter = "pdf" /\ trace.call = "addImage" /\ trace.txt[1] \in UnresolvedTags)
           => /\ pc = "images" /\ ~thrown.raised
              /\ \A k \in 1..Len(Drawn) : Drawn[k].op # "image"
    /\ \A k \in 1..Len(doc.log) :
           doc.log[k].op = "image" => doc.log[k].txt[1] \notin UnresolvedTags
    /\ (exporter = "anki" /\ trace.call = "cleanMarkdownForAnki")
           => LET card == flashcards[Len(flashcards)]
              IN /\ pc \in {"lines", "parsed"} /\ ~thrown.raised
                 /\ Count(card.back, UnresolvedTags) = 0
                 /\ Count(card.back, {NotFoundText}) = Count(trace.txt, {"<img s2>"})
                 /\ Count(card.back, {ErrorText}) = Count(trace.txt, {"<img s3>"})
                 /\ Cardinality(DOMAIN card.images)
                        <= Count(trace.txt, {"<img s1>", "<img data>"})
                 /\ \A f \in DOMAIN card.images : card.images[f] \in {"s1", "inline"}

\* Both exports of a note that refers to a missing image and to one whose
\* lookup fails have ended with a download, and the card shows both
\* placeholders.
C9_Witness ==
    /\ exporter = "anki" /\ pc = "done" /\ Len(downloads) = 2
    /\ Count(markdown, {"<img s2>"}) = 1 /\ Count(markdown, {"<img s3>"}) = 1
    /\ \E k \in 1..Len(flashcards) :
          /\ Count(flashcards[k].back, {NotFoundText}) = 1
          /\ Count(flashcards[k].back, {ErrorText}) = 1
          /\ DOMAIN flashcards[k].images = {}

\* C10: if a step of exportToPdf throws, the call ends with one thrown Error
\* whose message is "Failed to generate PDF: " followed by the message of
\* the original error, and the download helper is not called; a call never
\* both triggers a download and throws.
C10_ThrowOrDownload ==
    exporter = "pdf"
        => /\ thrown.raised
                  => /\ pc = "failed" /\ downloads = <<>>
                     /\ thrown.cause.isError
                            => thrown.message
                                   = <<"Failed to generate PDF: ">> \o thrown.cause.message
           /\ downloads # <<>> => (~thrown.raised /\ pc = "done" /\ Len(downloads) = 1)
           /\ pc = "failed" => thrown.raised

\* exportToPdf has thrown the wrapped form of an Error.
C10_Witness ==
    /\ exporter = "pdf" /\ pc = "failed" /\ thrown.raised /\ thrown.cause.isError
    /\ thrown.message = <<"Failed to generate PDF: ", "boom">>

(***************************************************************************)
(* The empty card list                                                     *)
(***************************************************************************)
\* C11: exportToAnki throws and writes no archive (nothing is put into a
\* zip and the download helper is not called) whenever
\* parseNotesToFlashcards returns an empty list; when the list is not empty
\* and no later step throws, it triggers exactly one download.
C11_EmptyListThrows ==
    /\ [][(exporter = "anki" /\ pc = "parsed" /\ Len(flashcards) = 0)
              => /\ pc' = "failed" /\ thrown'.raised
                 /\ zip' = NoZip /\ downloads' = <<>>]_vars
    /\ [](exporter = "anki"
              => /\ pc = "done" => (Len(downloads) = 1 /\ ~thrown.raised /\ Len(flashcards) > 0)
                 /\ downloads # <<>> => (pc = "done" /\ zip.readme.cards = Len(flashcards))
                 /\ thrown.raised => (pc = "failed" /\ downloads = <<>>))

\* exportToAnki has thrown for a note without cards, with nothing written.
C11_Witness ==
    /\ exporter = "anki" /\ pc = "failed" /\ thrown.raised
    /\ thrown.message = <<"No flashcards could be generated from this note.">>
    /\ zip = NoZip /\ downloads = <<>>

(***************************************************************************)
(* The Related Notes listing                                               *)
(***************************************************************************)
\* A [[...]] token of s from position p to position e: two opening brackets,
\* a text of at least one character without a closing bracket, two closing
\* brackets.
IsLinkAt(s, p, e) ==
    /\ 1 <= p /\ p + 4 <= e /\ e <= Len(s)
    /\ s[p] = "[" /\ s[p + 1] = "[" /\ s[e - 1] = "]" /\ s[e] = "]"
    /\ \A k \in (p + 2)..(e - 2) : s[k] # "]"

\* The positions at which s holds a token whose trimmed title is t.
LinkPositions(s, t) ==
    {p \in 1..Len(s) : \E e \in 1..Len(s) : IsLinkAt(s, p, e) /\ Trim(Slice(s, p + 2, e - 2)) = t}

\* The trimmed titles of the tokens of s.
LinkTitles(s) ==
    {Trim(Slice(s, pe[1] + 2, pe[2] - 2)) :
        pe \in {q \in (1..Len(s)) \X (1..Len(s)) : IsLinkAt(s, q[1], q[2])}}

FirstPosition(s, t) == CHOOSE p \in LinkPositions(s, t) : \A q \in LinkPositions(s, t) : p <= q

\* C12: exportToPdf appends a Related Notes listing exactly when the body
\* holds at least one [[...]] token; the listing has one bulleted entry per
\* distinct trimmed title that extractNoteLinks returns, in the order of the
\* first occurrences in the body; extractNoteLinks returns no duplicates.
C12_RelatedNotes ==
    (exporter = "pdf" /\ pc \in {"output", "done"})
        => LET links == extractNoteLinks(markdown)
               entries == TextsOf(doc.log, {"relatedlink"})
           IN /\ Len(TextsOf(doc.log, {"related"})) = (IF LinkTitles(markdown) # {} THEN 1 ELSE 0)
              /\ entries = [k \in 1..Len(links) |-> <<"(bullet)", " ">> \o links[k]]
              /\ {links[k] : k \in 1..Len(links)} = LinkTitles(markdown)
              /\ \A j, k \in 1..Len(links) :
                    j < k => /\ links[j] # links[k]
                             /\ FirstPosition(markdown, links[j]) < FirstPosition(markdown, links[k])

\* The PDF of a body that names one note twice and another once has been
\* made: three tokens, two entries.
C12_Witness ==
    /\ exporter = "pdf" /\ pc = "done"
    /\ Len(NoteLinkMatches(markdown)) = 3
    /\ Len(TextsOf(doc.log, {"relatedlink"})) = 2
    /\ Len(TextsOf(doc.log, {"related"})) = 1

(***************************************************************************)
(* The TSV document                                                        *)
(***************************************************************************)
\* C13: for every card list that parseNotesToFlashcards produces,
\* generateAnkiTSV yields exactly one line per card, and every line holds
\* exactly one tab, between the front and the back: no front and no back
\* brings a tab or a line break into the output.
C13_OneTabPerLine ==
    (exporter = "anki" /\ pc \in {"zipped", "done"})
        => /\ Len(Split(zip.tsv)) = Len(flashcards)
           /\ \A k \in 1..Len(Split(zip.tsv)) :
                 LET line == Split(zip.tsv)[k]
                     t == Find(line, <<TAB>>, 1)
                 IN /\ Count(line, {TAB}) = 1
                    /\ Len(Slice(line, 1, t - 1)) = Len(flashcards[k].front)
                    /\ Slice(line, t + 1, Len(line)) = flashcards[k].back

\* The archive of a note whose title holds a line break, whose summary and
\* one of whose headings hold a tab has been downloaded.
C13_Witness ==
    /\ exporter = "anki" /\ pc = "done" /\ Len(flashcards) >= 2
    /\ Count(flashcards[1].front, {NL}) = 1
    /\ Count(summary, {TAB}) = 1
    /\ \E k \in 1..Len(flashcards) : Count(flashcards[k].front, {TAB}) = 1

(***************************************************************************)
(* Lists on a card                                                         *)
(***************************************************************************)
\* The HTML list a run of list lines is to become: one <li> per line, in
\* order, holding the converted text of the item.
ExpectedList(lines) ==
    <<IF IsNumberRegexLine(lines[1]) THEN "<ol>" ELSE "<ul>">>
        \o Flatten([k \in 1..Len(lines) |->
                       <<"<li>">>
                           \o cleanMarkdownForAnki(Trim(ItemText(lines[k])),
                                                   [n \in 1..MaxImages |-> "f1"]).content
                           \o <<"</li>">>])
        \o <<IF IsNumberRegexLine(lines[1]) THEN "</ol>" ELSE "</ul>">>

\* C14: for a section body that is a run of list lines, the back of the card
\* is a single <ul> (for "-" and "*" markers) or <ol> (for "<digits>."
\* markers) with one <li> per list line, in order, and each <li> holds the
\* converted text of its item, the line without its marker.
C14_ListItems ==
    (/\ exporter = "anki" /\ trace.call = "cleanMarkdownForAnki"
     /\ \/ \A k \in 1..Len(Split(trace.txt)) : IsBulletRegexLine(Split(trace.txt)[k])
        \/ \A k \in 1..Len(Split(trace.txt)) : IsNumberRegexLine(Split(trace.txt)[k]))
        => flashcards[Len(flashcards)].back = ExpectedList(Split(trace.txt))

(***************************************************************************)
(* A run of fewer than two pipe-bounded lines                              *)
(***************************************************************************)
\* C15: a run of pipe-bounded lines with fewer than 2 lines is not rendered
\* as a table by either exporter; its lines are rendered as ordinary
\* paragraph text with the pipe characters kept, and none of its text is
\* lost from the output: in the PDF the call made for the run draws no table
\* cell and draws the wrapped text of its lines, in the flashcards the back
\* of a card whose content is the run is the text of the run.
C15_ShortRunIsText ==
    /\ (exporter = "pdf" /\ pc = "render" /\ trace.call = "renderTable"
            /\ Len(Split(trace.txt)) < 2)
           => /\ TextsOf(Drawn, {"th", "td"}) = <<>>
              /\ TextsOf(Drawn, ContentTags) = SplitTextToSize(cleanMarkdown(trace.txt))
    /\ (exporter = "anki" /\ trace.call = "cleanMarkdownForAnki" /\ flashcards # <<>>
            /\ Len(Split(trace.txt)) < 2 /\ IsTableRegexLine(trace.txt))
           => flashcards[Len(flashcards)].back = Trim(trace.txt)


(***************************************************************************)
(* The image files of a card                                               *)
(***************************************************************************)
\* What processImagesForAnki puts in the place of an image tag.
ImageOutputs ==
    {AnkiImg(f) : f \in FileNames} \cup {NotFoundText, PlaceholderText, ErrorText, StyledImg}

\* The resolved data payload of an image tag.
PayloadOf(t) == IF ImgSrc(t).scheme = "data" THEN ImgSrc(t).id ELSE getImage(ImgSrc(t).id).data

\* C16: for every card, each synthetic filename that appears as an img src
\* in the card's back is a key of that card's image map, mapped to the
\* resolved data payload of the original image (the k-th image of the text
\* the card was made from, for the k-th image of the back), and is a key of
\* the merged image map that exportToAnki writes under images/.
C16_SrcIsKeyOfImageMap ==
    /\ (exporter = "anki" /\ trace.call = "cleanMarkdownForAnki" /\ flashcards # <<>>)
           => LET card == flashcards[Len(flashcards)]
                  matches == ImagesToAdd(trace.txt)
                  outs == SelectSeq(card.back, LAMBDA t : t \in ImageOutputs)
              IN Len(outs) = Len(matches)
                     => \A k \in 1..Len(outs) : \A f \in FileNames :
                            outs[k] = AnkiImg(f)
                                => f \in DOMAIN card.images /\ card.images[f] = PayloadOf(matches[k])
    /\ (exporter = "anki" /\ pc \in {"parsed", "zipped", "done"})
           => \A k \in 1..Len(flashcards) : \A f \in FileNames :
                  Count(flashcards[k].back, {AnkiImg(f)}) > 0
                      => f \in DOMAIN flashcards[k].images /\ f \in DOMAIN AllImages(flashcards)


(***************************************************************************)
(* The download filenames                                                  *)
(***************************************************************************)
\* The characters of a stem: lowercase letters, digits and the hyphen.
StemChars == {"a", "b", "c", "d", "e", "w", "t", "1", "2", "-"}

\* A title with every run of non-alphanumeric characters replaced by one
\* hyphen and every letter in lowercase.
RECURSIVE ExpectedStem(_)
ExpectedStem(t) ==
    IF t = <<>> THEN <<>>
    ELSE IF IsAlnum(Head(t)) THEN <<ToLower(Head(t))>> \o ExpectedStem(Tail(t))
    ELSE IF Len(t) >= 2 /\ ~IsAlnum(t[2]) THEN ExpectedStem(Tail(t))
    ELSE <<"-">> \o ExpectedStem(Tail(t))

\* C17: the download filename of both exporters is derived from the title so
\* that its stem contains only lowercase letters, digits and hyphens, with
\* every run of non-alphanumeric characters replaced by a hyphen, followed
\* by the format's extension: ".pdf" for exportToPdf, "-anki-flashcards.zip"
\* for exportToAnki.
C17_DownloadFilename ==
    /\ \A k \in 1..Len(downloads) :
           LET name == downloads[k]
               stem == Slice(name, 1, Len(name) - 1)
           IN /\ \A j \in 1..Len(stem) : stem[j] \in StemChars
              /\ stem = ExpectedStem(title)
              /\ name[Len(name)] \in {".pdf", "-anki-flashcards.zip"}
    /\ (pc = "done" /\ downloads # <<>>)
           => downloads[Len(downloads)][Len(downloads[Len(downloads)])]
                  = (IF exporter = "pdf" THEN ".pdf" ELSE "-anki-flashcards.zip")


(***************************************************************************)
(* Tables: alignment                                                       *)
(***************************************************************************)
\* The alignment of the column k (from 1) under a separator row: center when
\* the trimmed separator cell starts and ends with ":", right when it only
\* ends with ":", left otherwise, and left when the row has no such cell.
ColumnAlign(separatorRow, k) ==
    LET cells == RawCells(separatorRow)
        t == IF k <= Len(cells) THEN Trim(cells[k]) ELSE <<>>
    IN IF t # <<>> /\ t[1] = ":" /\ t[Len(t)] = ":" THEN "center"
       ELSE IF t # <<>> /\ t[Len(t)] = ":" THEN "right"
       ELSE "left"

\* The alignments of the draw calls of s that carry the tag, in order.
AlignsOf(s, tag) ==
    LET kept == SelectSeq(s, LAMBDA e : e.tag = tag)
    IN [k \in 1..Len(kept) |-> kept[k].align]

\* The alignments of the cells of the data rows: in the PDF one for each
\* wrapped line of each cell up to the column count n, in the flashcards one
\* for each cell.
PdfRowAligns(rows, separatorRow, n) ==
    Flatten([r \in 1..Len(rows) |->
        Flatten([k \in 1..Min(Len(Cells(rows[r])), n) |->
            [j \in 1..Len(Wrapped(Cells(rows[r])[k])) |-> ColumnAlign(separatorRow, k)]])])

HtmlRowAligns(rows, separatorRow) ==
    Flatten([r \in 1..Len(rows) |->
        [k \in 1..Len(Cells(rows[r])) |-> Td(ColumnAlign(separatorRow, k))]])

\* The most columns of a table.
MaxColumns == 3

TdTokens == {"<td left>", "<td center>", "<td right>"}

\* The number of <td> elements of the table row that opens at position p of
\* the HTML s.
CellsOfRow(s, p) ==
    LET closes == {q \in p..Len(s) : s[q] = "</tr>"}
        close == CHOOSE q \in closes : \A r \in closes : q <= r
    IN Cardinality({j \in p..close : s[j] \in TdTokens})

\* C19: in both exporters every rendered data row of a table has exactly as
\* many cells as the header row: a data row with fewer cells renders the
\* missing cells empty, and a data row with more cells than the header
\* renders no cell beyond the header's column count.  In the PDF a cell is
\* the text drawn in its column, so an empty cell is one with no text; in
\* the flashcards a cell is a <td> element of the row.
C19_CellsPerRow ==
    /\ (exporter = "pdf" /\ pc = "render" /\ trace.call = "renderTable"
            /\ Len(Split(trace.txt)) >= 2)
           => TextsOf(Drawn, {"td"}) = ExpectedTexts("renderTable", Split(trace.txt))
    /\ (exporter = "anki" /\ trace.call = "cleanMarkdownForAnki" /\ flashcards # <<>>
            /\ Len(Split(trace.txt)) >= 2
            /\ \A k \in 1..Len(Split(trace.txt)) : IsTableRegexLine(Split(trace.txt)[k]))
           => LET back == flashcards[Len(flashcards)].back
                  n == Len(Cells(Split(trace.txt)[1]))
              IN /\ Cardinality({p \in 1..Len(back) : back[p] = "<tr>"})
                        = Len(Split(trace.txt)) - 2
                 /\ \A p \in 1..Len(back) : back[p] = "<tr>" => CellsOfRow(back, p) = n


(***************************************************************************)
(* Skipped images                                                          *)
(***************************************************************************)
\* The image tags addImagesToPdf skips: the placeholder marker, the store id
\* with nothing behind it, the store id whose lookup fails.
SkippedTags == {"<img ph>", "<img s2>", "<img s3>"}

\* C20: in addImagesToPdf, an image that is skipped (a placeholder-marker
\* source, a store id that resolves to nothing, or a lookup that fails)
\* leaves the layout cursor y and the document's page count exactly as they
\* were before that image was considered.
C20_SkipLeavesLayout ==
    (exporter = "pdf" /\ pc = "images" /\ trace.call = "addImage"
         /\ trace.txt[1] \in SkippedTags)
        => /\ sect.currentY = trace.y0
           /\ doc.pages = trace.pages0


(***************************************************************************)
(* The image pass of a section                                             *)
(***************************************************************************)
\* An image reference whose source is a store id that resolves, an inline
\* data payload or an external URL.
Placeable(t) ==
    \/ ImgSrc(t).scheme \in {"data", "http"}
    \/ ImgSrc(t).scheme = "cornell-image" /\ getImage(ImgSrc(t).id).outcome = "found"

\* The image draw calls among the draw calls s.
ImagesOf(s) == SelectSeq(s, LAMBDA e : e.op = "image")

\* C21: for every image reference in a non-empty section body, in the HTML
\* form or in the markdown form, whose source is a resolvable store id, an
\* inline data payload or an external URL, the PDF image pass places exactly
\* one image, after all text blocks of that section and in source order:
\* the pass starts when every line of the section has been rendered, it
\* takes up the references of both forms in source order, the step for a
\* reference whose image data the browser decodes draws one image, and no
\* text block draws an image.
C21_EveryImagePlaced ==
    exporter = "pdf"
        => /\ pc = "images" => sect.i > Len(sect.lines)
           /\ (pc = "images" /\ trace.call = "none")
                  => SelectSeq(sect.images, Placeable)
                         = SelectSeq(sections[index + 1].content,
                                     LAMBDA t : t \in HtmlImgs \cup MdImgs /\ Placeable(t))
           /\ (trace.call = "addImage" /\ Placeable(trace.txt[1])
                   /\ trace.txt[2] = "decoded")
                  => /\ Len(ImagesOf(Drawn)) = 1
                     /\ ImagesOf(Drawn)[1].txt = <<trace.txt[1]>>
                     /\ ImagesOf(Drawn)[1].page = doc.pages
           /\ (pc = "render" /\ trace.call # "none") => ImagesOf(Drawn) = <<>>


(***************************************************************************)
(* Markdown images on a card                                               *)
(***************************************************************************)
\* The image references whose data processImagesForAnki is to embed: the
\* store id with a payload and the inline payload, in either form.
Embeddable == {"<img s1>", "<img data>", "![](s1)", "![](data)"}

\* C22: in the flashcard transformer a markdown-style image ![alt](src) is
\* first rewritten to an HTML <img> tag and then receives the same
\* processing as an HTML image: the markdown form is not left on the card,
\* and every reference with a payload, in either form, has an img tag with
\* a synthetic filename on the back and its payload in the card's image
\* map.
C22_MarkdownImageAsHtml ==
    (exporter = "anki" /\ trace.call = "cleanMarkdownForAnki" /\ flashcards # <<>>
         /\ Count(trace.txt, MdImgs) > 0)
        => LET card == flashcards[Len(flashcards)]
           IN /\ Count(card.back, MdImgs) = 0
              /\ Count(card.back, {AnkiImg(f) : f \in FileNames})
                     = Count(trace.txt, Embeddable)
              /\ \A t \in Embeddable :
                     Count(trace.txt, {t}) > 0
                         => \E f \in DOMAIN card.images : card.images[f] = PayloadOf(t)


(***************************************************************************)
(* Code blocks and links on a card                                         *)
(***************************************************************************)
\* A text that is one fenced code block: a fence line, lines of code that
\* are no fences, a fence line.
IsFencedBlock(lines) ==
    /\ Len(lines) >= 3
    /\ lines[1] = <<BT, BT, BT>> /\ lines[Len(lines)] = <<BT, BT, BT>>
    /\ \A k \in 2..(Len(lines) - 1) : BT \notin {lines[k][j] : j \in 1..Len(lines[k])}

\* A text that is one markdown link [text](url) with a text and a url of one
\* character.
IsLink(s) ==
    Len(s) = 6 /\ s[1] = "[" /\ s[3] = "]" /\ s[4] = "(" /\ s[6] = ")"
        /\ IsAlnum(s[2]) /\ IsAlnum(s[5])

\* The characters of s that are neither white space nor line-break elements.
Inked(s) == SelectSeq(s, LAMBDA t : ~IsSpace(t) /\ t # "<br>")

\* C23: in the flashcard transformer a fenced code block in a section body
\* is rendered on the card back as one <pre><code> block containing the
\* content lines with the fence lines excluded, and a markdown link
\* [text](url) is rendered as an <a href="url"> element; the earlier bold,
\* italic and inline-code substitutions do not alter or pre-empt these
\* conversions.
C23_CodeBlockAndLink ==
    (exporter = "anki" /\ trace.call = "cleanMarkdownForAnki" /\ flashcards # <<>>)
        => LET back == flashcards[Len(flashcards)].back
               lines == Split(trace.txt)
           IN /\ IsFencedBlock(lines)
                    => /\ back[1] = "<pre><code>" /\ back[Len(back)] = "</code></pre>"
                       /\ Inked(Slice(back, 2, Len(back) - 1))
                              = Inked(Join(Slice(lines, 2, Len(lines) - 1)))
              /\ IsLink(trace.txt)
                    => back = <<"<a href=", trace.txt[5], ">", trace.txt[2], "</a>">>


(***************************************************************************)
(* Continuation pages                                                      *)
(***************************************************************************)
\* The tags of what the render of a section puts on a page.
SectionTags ==
    {"para", "li", "marker", "code", "codebg", "quote", "quotebar", "th", "thline", "td",
     "rowline", "heading", "image"}

\* The draw calls with one of the tags on page p.
OnPage(p, tags) == SelectSeq(doc.log, LAMBDA e : e.page = p /\ e.tag \in tags)

\* The section loop of exportToPdf has ended.
LoopEnded == (pc = "sections" /\ index >= Len(sections)) \/ pc \in {"output", "done"}

\* C24: after the section loop of exportToPdf, for every page p: p is
\* recorded as a continuation page exactly when some section's render
\* started on an earlier page and ended on p or later, the recorded section
\* is the one whose content occupies the top of p (its render has put
\* something on p), and that section's heading label, and no other
\* continuation label, is redrawn at the top of p's key-point column.
C24_ContinuationPages ==
    exporter = "pdf"
        => /\ LoopEnded
                  => \A p \in 1..doc.pages :
                         /\ p \in DOMAIN continuationPages
                                <=> \E k \in 1..Len(sectionBoundaries) :
                                        /\ sectionBoundaries[k].startPage < p
                                        /\ p <= sectionBoundaries[k].endPage
                         /\ p \in DOMAIN continuationPages
                                => \E k \in 1..Len(sectionBoundaries) :
                                       /\ sectionBoundaries[k].index = continuationPages[p]
                                       /\ sectionBoundaries[k].startPage < p
                                       /\ p <= sectionBoundaries[k].endPage
           /\ (pc = "images" /\ sect.images = <<>>)
                  => \A p \in (sect.startPage + 1)..doc.page : OnPage(p, SectionTags) # <<>>
           /\ pc \in {"output", "done"}
                  => \A p \in 1..doc.pages :
                         LET labels == OnPage(p, {"contlabel"})
                             heading == IF p \in DOMAIN continuationPages
                                        THEN SplitTextToSize(
                                                 sections[continuationPages[p] + 1].heading)
                                        ELSE <<>>
                         IN /\ [k \in 1..Len(labels) |-> labels[k].txt] = heading
                            /\ \A k \in 1..Len(labels) :
                                   /\ labels[k].x = margin + 50
                                   /\ labels[k].y = margin + 50 + 20 + (k - 1) * 60


(***************************************************************************)
(* Every line of text on the page                                          *)
(***************************************************************************)
\* What the code adds to the cursor to get the y it hands to doc.text: the
\* line of a draw call starts at the y of the call less this offset.
LineOffset(tag) ==
    CASE tag \in {"para", "li", "quote", "heading"} -> 20
      [] tag \in {"code", "keypoint"} -> 50 + 20
      [] tag = "td" -> cellPadding

\* The draw calls of lines of text (an in-body heading is one call for all
\* its lines, h their height together; a table cell's first line is the
\* row's, the wrapped ones follow it by a line height each).
LineCalls ==
    SelectSeq(doc.log, LAMBDA e : e.op = "text" /\ e.tag \in {"para", "li", "quote", "heading",
                                                           "code", "keypoint", "td"})

\* C25: every line of text the layout engine draws (paragraph, in-body
\* heading, list, code, quote, wrapped table cell, key-point heading) has
\* its box, from the cursor y of the line to y + lineHeight, inside
\* [margin, pageHeight - margin] on its page.
C25_LinesOnPage ==
    \A k \in 1..Len(LineCalls) :
        \E e \in {LineCalls[k]} :
            /\ margin <= e.y - LineOffset(e.tag)
            /\ e.y - LineOffset(e.tag) + (IF e.tag = "heading" THEN e.h ELSE lineHeight)
                   <= PageBottom


(***************************************************************************)
(* The backgrounds of a code block                                         *)
(***************************************************************************)
\* The backgrounds and the lines a call of renderCodeBlock drew, in order.
CodeCalls == SelectSeq(Drawn, LAMBDA e : e.tag \in {"codebg", "code"})

\* The number of code lines drawn after call k of s.
LinesAfter(s, k) == Cardinality({j \in (k + 1)..Len(s) : s[j].tag = "code"})

\* Where a block of n code lines starts when the loop of
\* renderMarkdownContent reaches its fence with the cursor at y0: after the
\* loop's own check, and at the top of a new page when the block does not fit.
BlockStart(n, y0) ==
    LET c == IF y0 + lineHeight > PageBottom THEN margin ELSE y0
    IN IF c + n * lineHeight + 60 > PageBottom THEN margin ELSE c

\* C26: renderCodeBlock with n code lines draws, where the block starts, a
\* background of height min(6n + 6, the room left above pageHeight - margin);
\* at every page break inside the block, before any line of the new page, a
\* background at the top of the page for the lines that remain, of height
\* min(6 * remaining + 6, printable height); and it never splits a block
\* with 6n + 6 <= pageHeight - 2 * margin.
C26_CodeBackgrounds ==
    trace.call = "renderCodeBlock"
        => \E n \in {Len(CodeLines(Split(trace.txt)))}, s \in {CodeCalls} :
              /\ s # <<>>
              /\ s[1].tag = "codebg"
              /\ s[1].y = BlockStart(n, trace.y0)
              /\ s[1].h = Min(n * lineHeight + 60, PageBottom - s[1].y)
              /\ LinesAfter(s, 1) = n
              /\ \A k \in 2..Len(s) :
                    /\ s[k].tag = "codebg"
                          => /\ s[k].page = s[k - 1].page + 1
                             /\ s[k].y = margin
                             /\ s[k].h = Min(LinesAfter(s, k) * lineHeight + 60,
                                             PageBottom - margin)
                             /\ LinesAfter(s, k) > 0
                    /\ s[k].tag = "code" => s[k].page = s[k - 1].page
              /\ n * lineHeight + 60 <= pageHeight - 2 * margin
                    => \A k \in 1..Len(s) : s[k].page = s[1].page

\* A block longer than a page has been drawn: two backgrounds, the second
\* on the continuation page.
C26_Witness ==
    /\ trace.call = "renderCodeBlock"
    /\ Len(SelectSeq(CodeCalls, LAMBDA e : e.tag = "codebg")) = 2
    /\ CodeCalls[Len(CodeCalls)].tag = "code"
    /\ CodeCalls[Len(CodeCalls)].page = CodeCalls[1].page + 1


(***************************************************************************)
(* The two section splitters                                               *)
(***************************************************************************)
\* The (heading, content) pairs of the sections parseMarkdown returns whose
\* content is not blank, the surrounding whitespace of both taken off.
PdfPairs ==
    LET kept == SelectSeq(parseMarkdown(markdown), LAMBDA s : Trim(s.content) # <<>>)
    IN [k \in 1..Len(kept) |-> <<Trim(kept[k].heading), Trim(kept[k].content)>>]

\* The section loop of parseNotesToFlashcards has just saved a section.
SectionSaved ==
    /\ exporter = "anki"
    /\ trace.call = "cleanMarkdownForAnki"
    /\ (pc = "lines" /\ parser.i > 0) \/ pc = "parsed"

\* C27: for every body, the section loop of parseNotesToFlashcards saves the
\* same (heading, content) pairs, in the same order, as parseMarkdown returns
\* sections with non-blank content: its k-th saved section is the k-th of
\* them, and it saves as many as there are.
C27_SameSections ==
    /\ SectionSaved
          => \E k \in {Len(flashcards) - SummaryCards} :
                /\ k \in 1..Len(PdfPairs)
                /\ <<flashcards[Len(flashcards)].front, trace.txt>> = PdfPairs[k]
    /\ (exporter = "anki" /\ pc = "parsed")
          => Len(flashcards) - SummaryCards = Len(PdfPairs)


(***************************************************************************)
(* The pass of renderMarkdownContent over the lines of a section           *)
(***************************************************************************)
\* The kind of block that starts at a line: the first test that the line
\* passes, in the order blank, table, code, blockquote, unordered list,
\* ordered list, heading, image, paragraph.
LineKind(line) ==
    IF Trim(line) = <<>> THEN "blank"
    ELSE IF IsTableLine(line) THEN "table"
    ELSE IF IsFence(line) THEN "code"
    ELSE IF IsQuote(line) THEN "quote"
    ELSE IF IsBullet(line) THEN "ulist"
    ELSE IF IsNumbered(line) THEN "olist"
    ELSE IF IsSubHeading(line) THEN "heading"
    ELSE IF HasHtmlImage(line) \/ HasMarkdownImage(line) THEN "image"
    ELSE "paragraph"

\* The fences after line i.
ClosingFences(lines, i) == {k \in (i + 1)..Len(lines) : IsFence(lines[k])}

\* The lines of the block that starts at line i: the line itself; for a
\* table, a quote and a list the run of lines of the same kind from i; for a
\* code block the lines up to the next fence, or all that remain.
BlockLines(lines, i) ==
    LET kind == LineKind(lines[i])
        others == {k \in i..Len(lines) : LineKind(lines[k]) # kind}
        last == IF kind \in {"table", "quote", "ulist", "olist"}
                THEN IF others = {} THEN Len(lines)
                     ELSE (CHOOSE k \in others : \A j \in others : k <= j) - 1
                ELSE IF kind = "code"
                THEN IF ClosingFences(lines, i) = {} THEN Len(lines)
                     ELSE CHOOSE k \in ClosingFences(lines, i) :
                              \A j \in ClosingFences(lines, i) : k <= j
                ELSE i
    IN i..last

\* What a block of a kind puts on the page, page breaks and their divider
\* aside.
KindTags(kind) ==
    CASE kind = "table" -> {"th", "thline", "td", "rowline"}
      [] kind = "code" -> {"codebg", "code"}
      [] kind = "quote" -> {"quote", "quotebar"}
      [] kind \in {"ulist", "olist"} -> {"li", "marker"}
      [] kind = "heading" -> {"heading"}
      [] kind = "paragraph" -> {"para"}
      [] OTHER -> {}

\* The state between two iterations of the loop: the index is 1 before the
\* first; after an iteration that began at line first, it is beyond first,
\* the lines from first up to it are those of the block that starts at
\* first, and the draw calls of the iteration are of that block's kind.
AfterBlock ==
    (exporter = "pdf" /\ pc = "render")
        => IF trace.call = "none" THEN sect.i = 1
           ELSE \E f \in {trace.first}, kind \in {LineKind(sect.lines[trace.first])} :
                   /\ trace.next > f
                   /\ sect.i = trace.next
                   /\ f..(sect.i - 1) \cap 1..Len(sect.lines) = BlockLines(sect.lines, f)
                   /\ sect.i <= Len(sect.lines) + 2
                   /\ {Drawn[k].tag : k \in 1..Len(Drawn)} \ {"addPage", "divider"}
                          \subseteq KindTags(kind)
                   /\ kind \notin {"blank", "image", "table"}
                         => \E k \in 1..Len(Drawn) : Drawn[k].tag \in KindTags(kind)
                   /\ (kind = "code" /\ ClosingFences(sect.lines, f) = {})
                         => sect.i > Len(sect.lines)

\* An iteration begins at the index the one before left and moves it on.
BlockStep ==
    (exporter = "pdf" /\ pc = "render" /\ pc' = "render")
        => /\ sect'.lines = sect.lines
           /\ trace'.first = sect.i
           /\ sect'.i > sect.i

\* C28: renderMarkdownContent is a single forward pass that ends: the line
\* index grows on every iteration of the loop and never passes the end of
\* the lines by more than two, every line belongs to exactly one block
\* (each iteration takes the lines of the block that starts where the one
\* before ended, its kind the first of blank, table, code, blockquote,
\* unordered list, ordered list, heading, image, paragraph that the line
\* passes), and a code fence with no closing fence takes every line that
\* remains.
C28_ForwardPass == []AfterBlock /\ [][BlockStep]_vars

\* A code fence with no closing fence, after an earlier block, has taken the
\* lines that remained.
C28_Witness ==
    /\ exporter = "pdf" /\ pc = "render" /\ trace.call # "none"
    /\ trace.first > 1
    /\ trace.first < Len(sect.lines)
    /\ LineKind(sect.lines[trace.first]) = "code"
    /\ ClosingFences(sect.lines, trace.first) = {}
    /\ sect.i > Len(sect.lines)


(***************************************************************************)
(* The spans of the sections                                               *)
(***************************************************************************)
\* The number of pages of the document when draw call k was made.
PagesAt(k) == 1 + Cardinality({j \in 1..k : doc.log[j].op = "addPage"})

\* The section loop is at the head of an iteration for a section with blank
\* content.
AtBlankSection ==
    /\ exporter = "pdf" /\ pc = "sections" /\ index < Len(sections)
    /\ Trim(sections[index + 1].content) = <<>>

\* The spans recorded so far: each ends on or after the page it starts on,
\* each starts after the one before it ends, they are those of the sections
\* with content, and what a section draws goes to the last page.
SpansInOrder ==
    /\ \A k \in 1..Len(sectionBoundaries) :
           sectionBoundaries[k].startPage <= sectionBoundaries[k].endPage
    /\ \A k \in 1..(Len(sectionBoundaries) - 1) :
           \E a \in {sectionBoundaries[k]}, b \in {sectionBoundaries[k + 1]} :
               \/ b.startPage > a.endPage
               \/ b.startPage = a.endPage /\ b.startY > a.endY
    /\ (exporter = "pdf" /\ pc = "sections")
           => [k \in 1..Len(sectionBoundaries) |-> sectionBoundaries[k].index]
                  = SelectSeq([j \in 1..index |-> j - 1],
                              LAMBDA j : Trim(sections[j + 1].content) # <<>>)
    /\ \A k \in 1..Len(doc.log) :
           doc.log[k].tag \in SectionTags \cup {"keypoint"} => doc.log[k].page = PagesAt(k)
    /\ (exporter = "pdf" /\ pc \in {"sections", "render", "images"}) => doc.page = doc.pages

\* The iteration for a section with blank content changes the index only.
BlankSectionSkipped ==
    (AtBlankSection /\ pc' = "sections")
        => /\ index' = index + 1
           /\ y' = y
           /\ doc' = doc
           /\ sectionBoundaries' = sectionBoundaries
           /\ continuationPages' = continuationPages

\* C29: the spans exportToPdf records are ordered and disjoint: startPage <=
\* endPage for every span, and a span starts on a later page than the one
\* before it ends or on the same page strictly below its endY; whatever a
\* section draws is drawn on the last page of the document; a section with
\* blank content records no span and moves neither the cursor nor the page
\* count.
C29_SpansOrdered == []SpansInOrder /\ [][BlankSectionSkipped]_vars

\* Three sections, the one in the middle blank: two spans on one page, the
\* second below the first.
C29_Witness ==
    /\ exporter = "pdf" /\ pc = "sections" /\ index = 3
    /\ Trim(sections[2].content) = <<>>
    /\ Len(sectionBoundaries) = 2
    /\ sectionBoundaries[2].index = 2
    /\ sectionBoundaries[2].startPage = sectionBoundaries[1].endPage
    /\ sectionBoundaries[2].startY > sectionBoundaries[1].endY


(***************************************************************************)
(* Key-point headings of neighbouring sections                             *)
(***************************************************************************)
\* The bottom of the key-point heading of the section of a span: its start
\* y, 5 mm, and 6 mm for each wrapped line of the heading.
HeadingBottom(span) ==
    span.startY + 50 + 60 * Len(SplitTextToSize(sections[span.index + 1].heading))

\* C30: of two consecutive sections with content placed on the same page,
\* the later one starts at or below the bottom of the earlier one's
\* key-point heading, so the headings in the left column do not overlap
\* however long a heading is next to its body.
C30_HeadingsApart ==
    \A k \in 1..(Len(sectionBoundaries) - 1) :
        \E a \in {sectionBoundaries[k]}, b \in {sectionBoundaries[k + 1]} :
            b.startPage = a.startPage => b.startY >= HeadingBottom(a)

====
